---- MODULE Spec2Model ----
(***************************************************************************)
(* A model of playcanvas/observer: the History action stack (history.js),  *)
(* the Observer tree (observer.ts), its ObserverHistory and ObserverSync   *)
(* bridges.  JavaScript objects live in a heap of records addressed by     *)
(* integer references; every method is an operator from a machine state    *)
(* to the machine state it leaves behind.                                  *)
(***************************************************************************)
EXTENDS Integers, Sequences, FiniteSets, TLC

VARIABLES hist, pend, hlast, discarded, nextId,
          store, tree, twin, queue, tlast, steps, faulted, bus

hvars == <<hist, pend, hlast, discarded, nextId>>

tvars == <<store, tree, twin, queue, tlast, steps, faulted, bus>>

vars == <<hist, pend, hlast, discarded, nextId, store, tree, twin, queue, tlast, steps, faulted, bus>>

(***************************************************************************)
(* Events (events.ts).  Two emitters, 1 and 2, and the listeners of one    *)
(* event name.  `bus` holds, for each emitter, its listener array          *)
(* `_events[name]` and its `_additionalEmitters`, and the stack of the     *)
(* emit calls in progress: emit is synchronous, so what a listener does    *)
(* happens while the frame of the emit that invoked it is on top.          *)
(***************************************************************************)
MaxDepth == 2
MaxBusOps == 4
MaxEmits == 2

Emitters == 1..2
Fns == 1..3

\* The listeners registered on emitter b: the second emitter takes one.
FnsOf(b) == IF b = 1 THEN Fns ELSE {1}

NoEmission == [bus |-> 0]

NoUnbind == [k |-> 0]

\* `handles` are the EventHandle objects the callers keep (owner 0 once
\* unbound); `hu` records the last handle.unbind(), `ran` how many times the
\* function given to once() was called.
NoBus == [ev |-> <<<<>>, <<>>>>, em |-> <<<<>>, <<>>>>, stack |-> <<>>,
          done |-> NoEmission, n |-> 0, emits |-> 0, threw |-> FALSE,
          handles |-> <<>>, hu |-> NoUnbind, ran |-> [f \in Fns |-> 0]]

\* The function that once(name, fn) registers in place of fn.
Wrapper(f) == 10 + f

IsWrapper(l) == l > 10

\* The frame of emit(name) on emitter b: `snap` is events.slice(0), `i` the
\* number of its entries gone through, `run` the listener being executed,
\* `fwd` the additional emitters and `j` how many of them were forwarded to.
\* `reg`, `called`, `grew`, `cut` and `caught` record the emission's history.
Frame(b, via) ==
    [bus |-> b, via |-> via, reg |-> bus.ev[b], snap |-> bus.ev[b], i |-> 0, run |-> 0,
     fwd |-> bus.em[b], j |-> 0, called |-> <<>>, grew |-> FALSE, cut |-> FALSE,
     caught |-> 0]

Top == bus.stack[Len(bus.stack)]

\* Code running outside of emit's own loop: the client between emissions, or
\* the body of the listener an emission is executing.
InBody == IF bus.stack = <<>> THEN TRUE ELSE Top.run # 0

Others == <<hist, pend, hlast, discarded, nextId, store, tree, twin, queue, tlast, steps, faulted>>

\* The listeners an emission goes through, as a live view of the array.
ListenersLive(fr) == bus.ev[fr.bus]

\* The listeners an emission goes through: the copy made when it began.
Listeners(fr) == fr.snap

\* The frames in progress, each one noted by F.
Noted(stack, F(_)) == IF stack = <<>> THEN <<>> ELSE [k \in 1..Len(stack) |-> F(stack[k])]

RegisteredIn(B, b) == {B.ev[b][m] : m \in 1..Len(B.ev[b])}

Registered(b) == RegisteredIn(bus, b)

\* Events.on(name, fn) on emitter b, from B
Added(B, b, f) ==
    [B EXCEPT !.ev[b] = IF f \in RegisteredIn(B, b) THEN @ ELSE Append(@, f),
              !.stack = Noted(@, LAMBDA fr : IF fr.bus = b /\ f \notin RegisteredIn(B, b)
                                             THEN [fr EXCEPT !.grew = TRUE] ELSE fr)]

\* Events.unbind(name, fn) on emitter b, from B; a handle kept for the
\* registration that goes is stale from then on.
Unbound(B, b, f) ==
    [B EXCEPT !.ev[b] = SelectSeq(@, LAMBDA g : g # f),
              !.stack = Noted(@, LAMBDA fr :
                            IF /\ fr.bus = b /\ f \in RegisteredIn(B, b)
                               /\ \E m \in (fr.i + 1)..Len(fr.snap) : fr.snap[m] = f
                            THEN [fr EXCEPT !.cut = TRUE] ELSE fr),
              !.handles = Noted(@, LAMBDA h : IF h.owner = b /\ h.fn = f /\ f \in RegisteredIn(B, b)
                                              THEN [h EXCEPT !.stale = TRUE] ELSE h)]

\* EventHandle.unbind() of handle k, from B
Released(B, k) ==
    LET h == B.handles[k]
    IN  IF h.owner = 0
        THEN [B EXCEPT !.hu = [k |-> k, spent |-> TRUE, stale |-> h.stale, removed |-> FALSE]]
        ELSE [Unbound(B, h.owner, h.fn) EXCEPT
                 !.handles[k].owner = 0,
                 !.hu = [k |-> k, spent |-> FALSE, stale |-> h.stale,
                         removed |-> h.fn \in RegisteredIn(B, h.owner)]]

\* on(name, fn), the handle dropped
On(b, f) ==
    /\ InBody /\ bus.n < MaxBusOps
    /\ bus' = [Added(bus, b, f) EXCEPT !.n = @ + 1]
    /\ UNCHANGED Others

\* handle = on(name, fn), the handle kept
HandleOn(b, f) ==
    /\ InBody /\ bus.n < MaxBusOps
    /\ bus' = [Added(bus, b, f) EXCEPT
                  !.n = @ + 1,
                  !.handles = Append(@, [owner |-> b, fn |-> f, stale |-> FALSE])]
    /\ UNCHANGED Others

\* once(name, fn), called once at most for each fn
Once(b, f) ==
    /\ InBody /\ bus.n < MaxBusOps
    /\ \A k \in 1..Len(bus.handles) : bus.handles[k].fn # Wrapper(f)
    /\ bus' = [Added(bus, b, Wrapper(f)) EXCEPT
                  !.n = @ + 1,
                  !.handles = Append(@, [owner |-> b, fn |-> Wrapper(f), stale |-> FALSE])]
    /\ UNCHANGED Others

\* handle.unbind()
HandleUnbind(k) ==
    /\ InBody /\ bus.n < MaxBusOps
    /\ k \in 1..Len(bus.handles)
    /\ bus' = [Released(bus, k) EXCEPT !.n = @ + 1]
    /\ UNCHANGED Others

\* unbind(name, fn)
Unbind(b, f) ==
    /\ InBody /\ bus.n < MaxBusOps
    /\ bus' = [Unbound(bus, b, f) EXCEPT !.n = @ + 1]
    /\ UNCHANGED Others

\* unbind(name); unbind() does the same to the one name there is
UnbindName(b) ==
    /\ InBody /\ bus.n < MaxBusOps /\ bus.ev[b] # <<>>
    /\ bus' = [bus EXCEPT !.n = @ + 1,
                  !.ev[b] = <<>>,
                  !.stack = Noted(@, LAMBDA fr : IF fr.bus = b /\ fr.i < Len(fr.snap)
                                                 THEN [fr EXCEPT !.cut = TRUE] ELSE fr),
                  !.handles = Noted(@, LAMBDA h : IF h.owner = b /\ h.fn \in Registered(b)
                                                  THEN [h EXCEPT !.stale = TRUE] ELSE h)]
    /\ UNCHANGED Others

\* addEmitter(emitter) on emitter 1
AddEmitter ==
    /\ bus.stack = <<>> /\ bus.em[1] = <<>>
    /\ bus' = [bus EXCEPT !.em[1] = <<2>>]
    /\ UNCHANGED Others

\* emit(name) is called, by the client or by a listener.
EmitCall(b) ==
    /\ InBody /\ Len(bus.stack) < MaxDepth /\ bus.emits < MaxEmits
    /\ bus' = [bus EXCEPT !.emits = @ + 1,
                  !.stack = Append(@, Frame(b, IF bus.stack = <<>> THEN "client" ELSE "listener"))]
    /\ UNCHANGED Others

\* The loop of emit calls the next listener.
Invoke ==
    /\ bus.stack # <<>> /\ Top.run = 0 /\ Top.i < Len(Listeners(Top))
    /\ bus' = [bus EXCEPT !.stack[Len(bus.stack)] =
                  [@ EXCEPT !.i = @ + 1, !.run = Listeners(Top)[Top.i + 1],
                            !.called = Append(@, Listeners(Top)[Top.i + 1])],
                  !.ran = IF IsWrapper(Listeners(Top)[Top.i + 1])
                          THEN [@ EXCEPT ![Listeners(Top)[Top.i + 1] - 10] = @ + 1] ELSE @]
    /\ UNCHANGED Others

\* The handle that once() made for the wrapper l.
HandleOf(l) == CHOOSE k \in 1..Len(bus.handles) : bus.handles[k].fn = l

\* The listener returns; the wrapper of once() has called evt.unbind() after fn.
ListenerReturn ==
    /\ bus.stack # <<>> /\ Top.run # 0
    /\ bus' = IF IsWrapper(Top.run)
              THEN [Released(bus, HandleOf(Top.run)) EXCEPT !.stack[Len(bus.stack)].run = 0]
              ELSE [bus EXCEPT !.stack[Len(bus.stack)].run = 0]
    /\ UNCHANGED Others

\* An emit call ends by an exception: its frame goes, and the exception
\* reaches its caller, a listener inside a try block of the emit below, or
\* the forwarding loop of the emit below, which no try block encloses.
RECURSIVE Unwind(_)
Unwind(b) ==
    LET fr == b.stack[Len(b.stack)]
        rest == SubSeq(b.stack, 1, Len(b.stack) - 1)
        gone == [b EXCEPT !.stack = rest, !.done = [fr EXCEPT !.via = "thrown"]]
    IN  CASE fr.via = "client" -> [gone EXCEPT !.threw = TRUE]
          [] fr.via = "listener" ->
                [gone EXCEPT !.stack[Len(rest)].run = 0, !.stack[Len(rest)].caught = @ + 1]
          [] OTHER -> Unwind(gone)

\* The listener throws v.  The catch block logs ex.stack, so that a thrown
\* null or undefined makes the catch block itself throw a TypeError.
ListenerThrow(v) ==
    /\ bus.stack # <<>> /\ Top.run # 0
    /\ bus' = IF v = "Error"
              THEN [bus EXCEPT !.stack[Len(bus.stack)].run = 0,
                               !.stack[Len(bus.stack)].caught = @ + 1]
              ELSE Unwind(bus)
    /\ UNCHANGED Others

\* After its listeners, emit calls emit on the next additional emitter.
Forward ==
    /\ bus.stack # <<>> /\ Top.run = 0 /\ Top.i >= Len(Listeners(Top)) /\ Top.j < Len(Top.fwd)
    /\ bus' = [bus EXCEPT !.stack = Append([@ EXCEPT ![Len(@)].j = @ + 1],
                                           Frame(Top.fwd[Top.j + 1], "forward"))]
    /\ UNCHANGED Others

\* emit returns.
EmitReturn ==
    /\ bus.stack # <<>> /\ Top.run = 0 /\ Top.i >= Len(Listeners(Top)) /\ Top.j >= Len(Top.fwd)
    /\ bus' = [bus EXCEPT !.stack = SubSeq(@, 1, Len(@) - 1), !.done = Top]
    /\ UNCHANGED Others

(***************************************************************************)
(* History (src/src/history.js)                                            *)
(***************************************************************************)

\* Number of actions the callers create over a run (each add call gets a new one).
MaxActions == 3

\* Cap on the number of callbacks that are awaited at the same time.
MaxPending == 2

ActionNames == {"n", "m"}

\* The action objects handed to add / addAndExecute.  name = "" models a
\* missing name, undo = 0 / redo = 0 a missing callback.  A callback is
\* identified by the number of the action that brought it.
NewActions(id) ==
    {[id |-> id, name |-> n, undo |-> id, redo |-> id, combine |-> c] :
        n \in ActionNames, c \in BOOLEAN}
    \cup {[id |-> id, name |-> "", undo |-> id, redo |-> id, combine |-> FALSE],
          [id |-> id, name |-> "n", undo |-> 0, redo |-> id, combine |-> FALSE],
          [id |-> id, name |-> "n", undo |-> id, redo |-> 0, combine |-> TRUE]}

NoAction == [id |-> 0, name |-> "", undo |-> 0, redo |-> 0, combine |-> FALSE]

HistoryNew ==
    [actions |-> <<>>, index |-> -1, canUndo |-> FALSE, canRedo |-> FALSE,
     executing |-> 0, ev |-> <<>>, lastCanUndo |-> FALSE, lastCanRedo |-> FALSE]

\* Events.emit on the History bus: the run's listener sees every event; the
\* last value carried by canUndo / canRedo is kept.
HEmit(h, name, arg) ==
    [h EXCEPT !.ev = Append(@, <<name, arg>>),
              !.lastCanUndo = IF name = "canUndo" THEN arg ELSE @,
              !.lastCanRedo = IF name = "canRedo" THEN arg ELSE @]

currentAction(h) ==
    IF h.index >= 0 /\ h.index < Len(h.actions) THEN h.actions[h.index + 1] ELSE NoAction

canUndo(h) == h.canUndo /\ h.executing = 0

canRedo(h) == h.canRedo /\ h.executing = 0

SetCanUndo(h, value) ==
    IF h.canUndo = value THEN h
    ELSE LET h1 == [h EXCEPT !.canUndo = value]
         IN  IF h1.executing = 0 THEN HEmit(h1, "canUndo", value) ELSE h1

SetCanRedo(h, value) ==
    IF h.canRedo = value THEN h
    ELSE LET h1 == [h EXCEPT !.canRedo = value]
         IN  IF h1.executing = 0 THEN HEmit(h1, "canRedo", value) ELSE h1

\* An executing setter that emits nothing.
SetExecutingQuiet(h, value) == [h EXCEPT !.executing = value]

SetExecuting(h, value) ==
    IF h.executing = value THEN h
    ELSE LET h1 == [h EXCEPT !.executing = value]
         IN  IF h1.executing # 0
             THEN HEmit(HEmit(h1, "canUndo", FALSE), "canRedo", FALSE)
             ELSE HEmit(HEmit(h1, "canUndo", h1.canUndo), "canRedo", h1.canRedo)

\* History.add without the truncation of the entries after the cursor.
HistoryAddKeepsTail(h, action) ==
    IF action.name = "" \/ action.undo = 0 \/ action.redo = 0
    THEN [h |-> h, ret |-> FALSE]
    ELSE LET cur == currentAction(h)
             h2 == IF action.combine /\ cur # NoAction /\ cur.name = action.name
                   THEN [h EXCEPT !.actions[h.index + 1].redo = action.redo]
                   ELSE [h EXCEPT !.actions = Append(@, action),
                                  !.index = Len(h.actions)]
             h3 == HEmit(h2, "add", action.name)
         IN  [h |-> SetCanRedo(SetCanUndo(h3, TRUE), FALSE), ret |-> TRUE]

\* History.add with a combine that replaces the whole entry, not only its redo.
HistoryAddReplacesEntry(h, action) ==
    IF action.name = "" \/ action.undo = 0 \/ action.redo = 0
    THEN [h |-> h, ret |-> FALSE]
    ELSE LET h1 == IF h.index # Len(h.actions) - 1
                   THEN [h EXCEPT !.actions = SubSeq(@, 1, h.index + 1)]
                   ELSE h
             cur == currentAction(h1)
             h2 == IF action.combine /\ cur # NoAction /\ cur.name = action.name
                   THEN [h1 EXCEPT !.actions[h1.index + 1] = action]
                   ELSE [h1 EXCEPT !.actions = Append(@, action),
                                   !.index = Len(h1.actions)]
             h3 == HEmit(h2, "add", action.name)
         IN  [h |-> SetCanRedo(SetCanUndo(h3, TRUE), FALSE), ret |-> TRUE]

\* History.add: the History it leaves and the value it returns.
HistoryAdd(h, action) ==
    IF action.name = "" \/ action.undo = 0 \/ action.redo = 0
    THEN [h |-> h, ret |-> FALSE]
    ELSE LET h1 == IF h.index # Len(h.actions) - 1
                   THEN [h EXCEPT !.actions = SubSeq(@, 1, h.index + 1)]
                   ELSE h
             cur == currentAction(h1)
             h2 == IF action.combine /\ cur # NoAction /\ cur.name = action.name
                   THEN [h1 EXCEPT !.actions[h1.index + 1].redo = action.redo]
                   ELSE [h1 EXCEPT !.actions = Append(@, action),
                                   !.index = Len(h1.actions)]
             h3 == HEmit(h2, "add", action.name)
         IN  [h |-> SetCanRedo(SetCanUndo(h3, TRUE), FALSE), ret |-> TRUE]

\* An undo() that tests the flag _canUndo and not the getter canUndo.
HistoryUndoByFlag(h) ==
    IF ~h.canUndo THEN [h |-> h, call |-> 0]
    ELSE LET cur == currentAction(h)
             h1 == HEmit([h EXCEPT !.index = @ - 1], "undo", cur.name)
             h2 == IF h1.index < 0 THEN SetCanUndo(h1, FALSE) ELSE h1
             h3 == SetCanRedo(h2, TRUE)
         IN  [h |-> SetExecuting(h3, h3.executing + 1), call |-> cur.undo]

\* The part of undo() that runs before the callback is awaited.
HistoryUndo(h) ==
    IF ~canUndo(h) THEN [h |-> h, call |-> 0]
    ELSE LET cur == currentAction(h)
             h1 == HEmit([h EXCEPT !.index = @ - 1], "undo", cur.name)
             h2 == IF h1.index < 0 THEN SetCanUndo(h1, FALSE) ELSE h1
             h3 == SetCanRedo(h2, TRUE)
         IN  [h |-> SetExecuting(h3, h3.executing + 1), call |-> cur.undo]

\* The part of redo() that runs before the callback is awaited.
HistoryRedo(h) ==
    IF ~canRedo(h) THEN [h |-> h, call |-> 0]
    ELSE LET h0 == [h EXCEPT !.index = @ + 1]
             cur == currentAction(h0)
             h1 == HEmit(h0, "redo", cur.name)
             h2 == SetCanUndo(h1, TRUE)
             h3 == IF h2.index = Len(h2.actions) - 1 THEN SetCanRedo(h2, FALSE) ELSE h2
         IN  [h |-> SetExecuting(h3, h3.executing + 1), call |-> cur.redo]

\* A clear() that empties the entries and leaves the cursor where it is.
HistoryClearKeepsCursor(h) ==
    IF Len(h.actions) = 0 THEN h
    ELSE SetCanRedo(SetCanUndo([h EXCEPT !.actions = <<>>], FALSE), FALSE)

HistoryClear(h) ==
    IF Len(h.actions) = 0 THEN h
    ELSE SetCanRedo(SetCanUndo([h EXCEPT !.actions = <<>>, !.index = -1], FALSE), FALSE)

\* A release that treats executing as a flag, not as a counter.
HistoryReleaseFlag(h) == SetExecuting(h, 0)

\* A finally block that leaves executing as it is.
HistoryReleaseNever(h) == h

\* The finally block of addAndExecute / undo / redo, run when the awaited
\* callback has resolved or rejected.
HistoryRelease(h) == SetExecuting(h, h.executing - 1)

Fresh(h) == [h EXCEPT !.ev = <<>>]

\* A callback being awaited by the async method `by`.
Awaited(call, by) == [call |-> call, by |-> by]

\* How an awaited callback ends.
Outcomes == {"resolved", "Error", "null"}

HLast(op, pre, action, ret, call) ==
    [op |-> op, pre |-> pre, action |-> action, ret |-> ret, call |-> call]

\* The redo callbacks of the entries of h that h2 no longer holds.
Dropped(h, h2) ==
    {h.actions[i].redo : i \in {j \in 1..Len(h.actions) :
        \A k \in 1..Len(h2.actions) : h2.actions[k].id # h.actions[j].id}}

\* A History just constructed, and no Observer.
HistoryIdle ==
    /\ hist = HistoryNew
    /\ pend = <<>>
    /\ hlast = HLast("new", HistoryNew, NoAction, FALSE, 0)
    /\ discarded = {}
    /\ nextId = 1

ObserverIdle ==
    /\ store = <<>>
    /\ tree = 0
    /\ twin = 0
    /\ queue = <<>>
    /\ tlast = [op |-> "none"]
    /\ steps = 0
    /\ faulted = FALSE
    /\ bus = NoBus

HInit == HistoryIdle /\ ObserverIdle

Add(a) ==
    /\ UNCHANGED tvars
    /\ nextId <= MaxActions
    /\ LET r == HistoryAdd(Fresh(hist), a)
       IN  /\ hist' = r.h
           /\ hlast' = HLast("add", hist, a, r.ret, 0)
           /\ discarded' = discarded \cup Dropped(hist, r.h)
    /\ nextId' = nextId + 1
    /\ UNCHANGED pend

AddAndExecute(a) ==
    /\ UNCHANGED tvars
    /\ nextId <= MaxActions
    /\ Len(pend) < MaxPending
    /\ LET r == HistoryAdd(Fresh(hist), a)
           h2 == IF r.ret THEN SetExecuting(r.h, r.h.executing + 1) ELSE r.h
       IN  /\ hist' = h2
           /\ hlast' = HLast("addAndExecute", hist, a, r.ret, IF r.ret THEN a.redo ELSE 0)
           /\ discarded' = discarded \cup Dropped(hist, r.h)
           /\ pend' = IF r.ret THEN Append(pend, Awaited(a.redo, "addAndExecute")) ELSE pend
    /\ nextId' = nextId + 1

Undo ==
    /\ UNCHANGED tvars
    /\ LET r == HistoryUndo(Fresh(hist))
       IN  /\ hist' = r.h
           /\ hlast' = HLast("undo", hist, NoAction, r.call # 0, r.call)
           /\ pend' = IF r.call # 0 THEN Append(pend, Awaited(r.call, "undo")) ELSE pend
    /\ UNCHANGED <<discarded, nextId>>

Redo ==
    /\ UNCHANGED tvars
    /\ LET r == HistoryRedo(Fresh(hist))
       IN  /\ hist' = r.h
           /\ hlast' = HLast("redo", hist, NoAction, r.call # 0, r.call)
           /\ pend' = IF r.call # 0 THEN Append(pend, Awaited(r.call, "redo")) ELSE pend
    /\ UNCHANGED <<discarded, nextId>>

Clear ==
    /\ UNCHANGED tvars
    /\ hist' = HistoryClear(Fresh(hist))
    /\ hlast' = HLast("clear", hist, NoAction, TRUE, 0)
    /\ UNCHANGED <<pend, nextId, discarded>>

\* The promise of the async method `by` rejects when its awaited callback
\* ended by `how`: addAndExecute has no catch block; the catch block of undo
\* and redo logs ex.stack, a TypeError of its own when ex is null or undefined.
Rejects(by, how) ==
    IF by = "addAndExecute" THEN how # "resolved" ELSE how = "null"

\* An awaited callback resolves, or throws or rejects with an Error or with
\* null; either way the finally block runs.
Settle(i, how) ==
    /\ UNCHANGED tvars
    /\ i \in 1..Len(pend)
    /\ hist' = HistoryRelease(Fresh(hist))
    /\ hlast' = [op |-> "settle", pre |-> hist, action |-> NoAction, ret |-> TRUE, call |-> 0,
                 by |-> pend[i].by, how |-> how, rejected |-> Rejects(pend[i].by, how)]
    /\ pend' = SubSeq(pend, 1, i - 1) \o SubSeq(pend, i + 1, Len(pend))
    /\ UNCHANGED <<discarded, nextId>>

HNext ==
    \/ \E a \in NewActions(nextId) : Add(a)
    \/ \E a \in NewActions(nextId) : AddAndExecute(a)
    \/ Undo
    \/ Redo
    \/ Clear
    \/ \E i \in 1..MaxPending, how \in Outcomes : Settle(i, how)

SpecHistory == HInit /\ [][HNext]_vars

(***************************************************************************)
(* Claims on History                                                       *)
(***************************************************************************)

IsAdd == hlast.op \in {"add", "addAndExecute"} /\ hlast.ret

\* The entries of the History before the last call, up to its cursor.
KeptPrefix == SubSeq(hlast.pre.actions, 1, hlast.pre.index + 1)

Combines ==
    /\ hlast.action.combine
    /\ hlast.pre.index >= 0
    /\ hlast.pre.actions[hlast.pre.index + 1].name = hlast.action.name

SameButRedo(e, f) == e.id = f.id /\ e.name = f.name /\ e.undo = f.undo

\* C4: an add of a valid action made while the cursor is not at the tail
\* leaves only the entries up to the cursor, followed by the new action if
\* it is stored as an entry; canRedo then reads false, and no later redo()
\* invokes the redo callback of an entry that an add has discarded.
C4_TruncationOnBranch ==
    /\ (IsAdd /\ hlast.pre.index # Len(hlast.pre.actions) - 1) =>
          /\ Len(hist.actions) = Len(KeptPrefix) + (IF Combines THEN 0 ELSE 1)
          /\ \A i \in 1..Len(KeptPrefix) : SameButRedo(hist.actions[i], KeptPrefix[i])
          /\ ~Combines => hist.actions[Len(hist.actions)] = hlast.action
          /\ ~hist.canRedo /\ ~canRedo(hist)
    /\ (hlast.op = "redo" /\ hlast.call # 0) => hlast.call \notin discarded

C4_Witness ==
    /\ hlast.op = "redo" /\ hlast.call # 0
    /\ discarded # {}

\* C5 (as claimed): a combining add whose name equals the name of the entry
\* at the cursor changes neither the number of entries nor the cursor, and
\* replaces only that entry's redo; any other valid add appends a new entry
\* that becomes the cursor.
C5_CombineAsClaimed ==
    IsAdd =>
        IF Combines
        THEN /\ Len(hist.actions) = Len(hlast.pre.actions)
             /\ hist.index = hlast.pre.index
             /\ hist.actions[hist.index + 1].redo = hlast.action.redo
             /\ hist.actions[hist.index + 1].undo = hlast.pre.actions[hist.index + 1].undo
        ELSE /\ hist.index = Len(hist.actions) - 1
             /\ hist.actions[hist.index + 1] = hlast.action

\* C5 (amended): a combining add whose name equals the name of the entry at
\* the cursor leaves the cursor and every entry up to it in place (the
\* entries after the cursor are discarded as for any add, so the number of
\* entries is unchanged when the cursor was at the tail); of the entry at
\* the cursor it replaces the redo alone.  Any other valid add appends the
\* new action after the cursor and makes it the cursor.
C5_Combine ==
    IsAdd =>
        IF Combines
        THEN /\ Len(hist.actions) = hlast.pre.index + 1
             /\ hist.index = hlast.pre.index
             /\ \A i \in 1..hist.index : hist.actions[i] = hlast.pre.actions[i]
             /\ hist.actions[hist.index + 1] =
                    [hlast.pre.actions[hist.index + 1] EXCEPT !.redo = hlast.action.redo]
        ELSE /\ hist.index = hlast.pre.index + 1
             /\ hist.index = Len(hist.actions) - 1
             /\ hist.actions[hist.index + 1] = hlast.action
             /\ \A i \in 1..hist.index : hist.actions[i] = hlast.pre.actions[i]

\* Two consecutive combining adds of the same name: one entry, whose undo is
\* the first action's and whose redo is the second's.
C5_Witness ==
    /\ IsAdd /\ Combines
    /\ Len(hist.actions) = 1
    /\ hist.actions[1].undo # hist.actions[1].redo

\* C6: while a callback started by addAndExecute / undo / redo has not
\* settled, executing is above zero, and whenever executing is above zero
\* both getters read false.
C6_DisabledWhileExecuting ==
    /\ Len(pend) > 0 => hist.executing > 0
    /\ hist.executing > 0 => ~canUndo(hist) /\ ~canRedo(hist)

\* One of two overlapping callbacks has settled and the other is pending,
\* with the underlying canUndo flag set.
C6_Witness ==
    /\ hlast.op = "settle"
    /\ Len(pend) > 0
    /\ hist.canUndo

(***************************************************************************)
(* JavaScript values and the heap                                          *)
(*                                                                         *)
(* A value is a scalar or a reference to a heap object.  Strings stand for *)
(* themselves; a number is written Num("0"), Num("1").  A dotted path      *)
(* string is kept as the list of its segments, path.split('.'), so that    *)
(* the empty string is <<"">> and `${a}.${b}` is a \o b.                  *)
(***************************************************************************)

Undef == [t |-> "undef", v |-> "", id |-> 0]

Null == [t |-> "null", v |-> "", id |-> 0]

Str(s) == [t |-> "str", v |-> s, id |-> 0]

Num(s) == [t |-> "num", v |-> s, id |-> 0]

Bool(b) == [t |-> "bool", v |-> IF b THEN "true" ELSE "false", id |-> 0]

Ref(i) == [t |-> "ref", v |-> "", id |-> i]

\* A literal: a scalar, [t |-> "arr", e |-> literals] or
\* [t |-> "obj", f |-> <<[k |-> key, v |-> literal], ...>>].
Arr(e) == [t |-> "arr", e |-> e]

Rec(f) == [t |-> "obj", f |-> f]

\* if (v) ...
Truthy(v) ==
    \/ v.t = "ref"
    \/ v.t = "str" /\ v.v # ""
    \/ v.t = "num" /\ v.v # "0"
    \/ v.t = "bool" /\ v.v = "true"

\* typeof v === 'object'
TypeofObject(v) == v.t \in {"null", "ref"}

Numerals == <<"0", "1", "2", "3", "4", "5", "6", "7">>

\* parseInt(k, 10), -1 standing for NaN
ToInt(k) ==
    IF \E i \in 1..Len(Numerals) : Numerals[i] = k
    THEN (CHOOSE i \in 1..Len(Numerals) : Numerals[i] = k) - 1
    ELSE -1

ToStr(i) == IF i >= 0 /\ i < Len(Numerals) THEN Numerals[i + 1] ELSE "NaN"

\* Observer._splitPath(path) for a path that is one key: the segments of
\* the key.  "a.b" is the key of this model that holds a '.'.
SplitPath(key) == IF key = "a.b" THEN <<"a", "b">> ELSE <<key>>

\* The empty path string, `${head}.${key}`, and the same with the test
\* `head ? ... : key`.
EmptyPath == <<"">>

Dot(head, key) == head \o SplitPath(key)

Under(head, key) == IF head = EmptyPath THEN SplitPath(key) ELSE Dot(head, key)

\* ObserverSync._paths: null, or the array of path strings given.
NoList == [on |-> FALSE, paths |-> {}]

\* A heap object: an Observer ("obs"), a keyed sub-record {_path, _keys,
\* _data} ("rec"), an Array ("arr") or a plain object ("plain").  reads
\* says that the listeners of the Observer call json() on it.
Obj(c) ==
    [c |-> c, path |-> EmptyPath, keys |-> <<>>, data |-> <<>>, el |-> <<>>,
     parent |-> 0, ppath |-> EmptyPath, pfield |-> 0,
     silent |-> FALSE, bound |-> FALSE, destroyed |-> FALSE,
     history |-> "none", sync |-> "none", dups |-> {}, allow |-> NoList,
     reads |-> FALSE]

Is(heap, v, c) == v.t = "ref" /\ heap[v.id].c = c

\* node._data is defined
HasData(heap, v) == v.t = "ref" /\ heap[v.id].c \in {"obs", "rec"}

\* Own properties of a JavaScript object, in the order for-in gives them:
\* integer keys ascending, then the other keys in insertion order.
HasKey(d, k) == \E i \in 1..Len(d) : d[i].k = k

Lookup(d, k) ==
    IF HasKey(d, k) THEN d[CHOOSE i \in 1..Len(d) : d[i].k = k].v ELSE Undef

Put(d, k, v) ==
    IF HasKey(d, k)
    THEN [i \in 1..Len(d) |-> IF d[i].k = k THEN [k |-> k, v |-> v] ELSE d[i]]
    ELSE IF ToInt(k) < 0 THEN Append(d, [k |-> k, v |-> v])
    ELSE LET n == Cardinality({i \in 1..Len(d) : ToInt(d[i].k) >= 0 /\ ToInt(d[i].k) < ToInt(k)})
         IN  SubSeq(d, 1, n) \o <<[k |-> k, v |-> v]>> \o SubSeq(d, n + 1, Len(d))

Del(d, k) == SelectSeq(d, LAMBDA e : e.k # k)

KeysOf(d) == [i \in 1..Len(d) |-> d[i].k]

IndexOf(s, x) ==
    IF \E i \in 1..Len(s) : s[i] = x
    THEN (CHOOSE i \in 1..Len(s) : s[i] = x /\ \A j \in 1..(i - 1) : s[j] # x) - 1
    ELSE -1

\* Array.prototype.splice(ind, n) and splice(ind, 0, x); a negative index
\* counts from the end and an index past the end is the end.
Clamp(s, ind) ==
    IF ind < 0 THEN (IF Len(s) + ind < 0 THEN 0 ELSE Len(s) + ind)
    ELSE IF ind > Len(s) THEN Len(s) ELSE ind

SpliceOut(s, ind) == SubSeq(s, 1, Clamp(s, ind)) \o SubSeq(s, Clamp(s, ind) + 2, Len(s))

SpliceIn(s, ind, x) == SubSeq(s, 1, Clamp(s, ind)) \o <<x>> \o SubSeq(s, Clamp(s, ind) + 1, Len(s))

\* node[k] for a value that is not null or undefined, and node._data[k]
\* where node._data is defined.
Prop(heap, node, k) ==
    IF HasData(heap, node) \/ Is(heap, node, "plain") THEN Lookup(heap[node.id].data, k)
    ELSE IF Is(heap, node, "arr")
         THEN IF ToInt(k) >= 0 /\ ToInt(k) < Len(heap[node.id].el)
              THEN heap[node.id].el[ToInt(k) + 1]
              ELSE Lookup(heap[node.id].data, k)
    ELSE IF node.t = "str" /\ k = "0" /\ node.v # "" THEN node
    ELSE Undef

\* Observer.json(target) called on the Observer `this`, as a literal whose
\* leaves may be references (the properties of a plain object are copied
\* as they are).  An undefined target is `this`.
RECURSIVE JsonT(_, _, _)
JsonT(heap, this, target) ==
    LET node == IF target.t = "undef" THEN Ref(this) ELSE target
    IN
    IF HasData(heap, node)
    THEN LET ob == heap[node.id]
             one(value) ==
                 IF Is(heap, value, "arr")
                 THEN Arr([n \in 1..Len(heap[value.id].el) |->
                          IF TypeofObject(heap[value.id].el[n])
                          THEN JsonT(heap, this, heap[value.id].el[n])
                          ELSE heap[value.id].el[n]])
                 ELSE IF value.t = "ref" THEN JsonT(heap, this, value)
                 ELSE value
             RECURSIVE fill(_, _)
             fill(i, acc) ==
                 IF i > Len(ob.keys) THEN acc
                 ELSE fill(i + 1, Put(acc, ob.keys[i], one(Lookup(ob.data, ob.keys[i]))))
         IN  Rec(fill(1, <<>>))
    ELSE IF node.t = "null" THEN Null
    ELSE IF Is(heap, node, "arr")
         THEN Arr([n \in 1..Len(heap[node.id].el) |-> JsonT(heap, this, heap[node.id].el[n])])
    ELSE IF node.t = "ref" THEN Rec(heap[node.id].data)
    ELSE node

\* The JSON text of a value or literal: every reference followed.
RECURSIVE Deep(_, _)
Deep(heap, x) ==
    IF x.t = "arr" THEN Arr([i \in 1..Len(x.e) |-> Deep(heap, x.e[i])])
    ELSE IF x.t = "obj"
         THEN Rec([i \in 1..Len(x.f) |-> [k |-> x.f[i].k, v |-> Deep(heap, x.f[i].v)]])
    ELSE IF Is(heap, x, "arr")
         THEN Arr([i \in 1..Len(heap[x.id].el) |-> Deep(heap, heap[x.id].el[i])])
    ELSE IF x.t = "ref" THEN Deep(heap, JsonT(heap, x.id, x))
    ELSE x

\* Deep equality of two JSON texts (the order of an object's fields is
\* not compared).
RECURSIVE DeepEq(_, _)
DeepEq(a, b) ==
    IF a.t # b.t THEN FALSE
    ELSE IF a.t = "arr"
         THEN Len(a.e) = Len(b.e) /\ \A i \in 1..Len(a.e) : DeepEq(a.e[i], b.e[i])
    ELSE IF a.t = "obj"
         THEN /\ Len(a.f) = Len(b.f)
              /\ \A i \in 1..Len(a.f) :
                    /\ HasKey(b.f, a.f[i].k)
                    /\ DeepEq(a.f[i].v, Lookup(b.f, a.f[i].k))
    ELSE a = b

\* A literal built in the heap: new Arrays and plain objects.
RECURSIVE AllocT(_, _)
AllocT(heap, x) ==
    LET RECURSIVE go(_, _, _)
        go(h, i, acc) ==
            IF x.t = "arr"
            THEN IF i > Len(x.e)
                 THEN [heap |-> Append(h, [Obj("arr") EXCEPT !.el = acc]), v |-> Ref(Len(h) + 1)]
                 ELSE LET r == AllocT(h, x.e[i]) IN go(r.heap, i + 1, Append(acc, r.v))
            ELSE IF i > Len(x.f)
                 THEN [heap |-> Append(h, [Obj("plain") EXCEPT !.data = acc]), v |-> Ref(Len(h) + 1)]
                 ELSE LET r == AllocT(h, x.f[i].v)
                      IN  go(r.heap, i + 1, Put(acc, x.f[i].k, r.v))
    IN  IF x.t \in {"arr", "obj"} THEN go(heap, 1, <<>>) ELSE [heap |-> heap, v |-> x]

\* Observer.get(path, raw): the walk, and whether it returned early.
GetWalk(heap, o, keys) ==
    LET RECURSIVE walk(_, _)
        walk(node, i) ==
            IF i > Len(keys) THEN [early |-> FALSE, node |-> node]
            ELSE IF node.t \in {"undef", "null"} THEN [early |-> TRUE, node |-> Undef]
            ELSE walk(Prop(heap, node, keys[i]), i + 1)
    IN  walk(Ref(o), 1)

GetRaw(heap, o, keys) == GetWalk(heap, o, keys).node

\* Observer.get(path): the value returned, as a literal.
Get(heap, o, keys) ==
    LET w == GetWalk(heap, o, keys)
    IN  IF w.early THEN Undef
        ELSE IF w.node.t \in {"undef", "null"} THEN Null
        ELSE JsonT(heap, o, w.node)

\* Observer.has(path)
Has(heap, o, keys) ==
    LET w == GetWalk(heap, o, keys)
    IN  IF w.early THEN Undef ELSE Bool(w.node.t # "undef")

(***************************************************************************)
(* The Observer (observer.ts), with the listeners that the constructor,    *)
(* ObserverHistory and ObserverSync register on it.                        *)
(*                                                                         *)
(* A call runs on a machine state: the heap, the events emitted so far in  *)
(* the call (with the JSON text of their arguments when emitted), the      *)
(* operations emitted by ObserverSync, the actions handed to History.add   *)
(* by ObserverHistory, whether the call has thrown, and its return value.  *)
(***************************************************************************)

Machine(heap) ==
    [heap |-> heap, log |-> <<>>, ops |-> <<>>, hrec |-> <<>>,
     thrown |-> FALSE, ret |-> Undef]

Throw(st) == [st EXCEPT !.thrown = TRUE]

Return(st, v) == IF st.thrown THEN st ELSE [st EXCEPT !.ret = v]

\* Observer.silence(): the state it returns, and its effect.
SilenceState(st, o) == <<st.heap[o].history = "on", st.heap[o].sync = "on">>

Silence(st, o) ==
    IF st.thrown THEN st ELSE
    [st EXCEPT !.heap[o].silent = TRUE,
               !.heap[o].history = IF @ = "on" THEN "off" ELSE @,
               !.heap[o].sync = IF @ = "on" THEN "off" ELSE @]

\* silenceRestore that enables both bridges whatever the state says
SilenceRestoreAlways(st, o, state) ==
    IF st.thrown THEN st ELSE
    [st EXCEPT !.heap[o].silent = FALSE,
               !.heap[o].history = IF @ = "none" THEN @ ELSE "on",
               !.heap[o].sync = IF @ = "none" THEN @ ELSE "on"]

SilenceRestore(st, o, state) ==
    IF st.thrown THEN st ELSE
    [st EXCEPT !.heap[o].silent = FALSE,
               !.heap[o].history = IF state[1] THEN "on" ELSE @,
               !.heap[o].sync = IF state[2] THEN "on" ELSE @]

\* An operation of ObserverSync; `has` is the set of its own properties.
Op(item, p, has) ==
    [item |-> item, p |-> p, has |-> has,
     oi |-> Undef, od |-> Undef, li |-> Undef, ld |-> Undef, lm |-> Undef]

RECURSIVE Call(_, _, _)
RECURSIVE Emit(_, _, _, _, _, _)
RECURSIVE NewObserver(_, _, _)
RECURSIVE Patch(_, _, _, _)
RECURSIVE Prepare(_, _, _, _, _, _, _)
RECURSIVE Set(_, _, _, _, _, _, _)
RECURSIVE Unset(_, _, _, _, _)
RECURSIVE DoInsert(_, _, _, _, _, _, _)
RECURSIVE Insert(_, _, _, _, _, _, _)
RECURSIVE Remove(_, _, _, _, _, _)
RECURSIVE Move(_, _, _, _, _, _, _)
RECURSIVE Write(_, _, _)
RECURSIVE RemoveValue(_, _, _, _, _, _)
RECURSIVE UndoCallback(_, _)
RECURSIVE RedoCallback(_, _)

\* The characters of a key of this model.
Spell(key) ==
    CASE key = "" -> <<>>
      [] key = "items" -> <<"i", "t", "e", "m", "s">>
      [] key = "a.b" -> <<"a", ".", "b">>
      [] key = "NaN" -> <<"N", "a", "N">>
      [] OTHER -> <<key>>

\* The characters of the path string: keys.join('.')
RECURSIVE Text(_)
Text(path) ==
    IF path = <<>> THEN <<>>
    ELSE IF Len(path) = 1 THEN Spell(path[1])
    ELSE Spell(path[1]) \o <<".">> \o Text(Tail(path))

\* t.indexOf(s) !== -1
IsInfix(s, t) == \E i \in 0..(Len(t) - Len(s)) : SubSeq(t, i + 1, i + Len(s)) = s

\* The allow-list test of the `*:set` listener of ObserverSync.
AllowedPath(allow, path) ==
    ~allow.on \/ \E q \in allow.paths : IsInfix(Text(q), Text(path))

\* The listeners ObserverSync._initialize registers on the item, run for
\* the event `*:${kind}` with arguments (path, args...).
SyncListener(st, o, path, kind, args) ==
    LET Build(value) ==
            IF kind = "set"
            THEN IF Len(path) > 1 /\ Get(st.heap, o, SubSeq(path, 1, Len(path) - 1)).t = "arr"
                 THEN [Op(o, SubSeq(path, 1, Len(path) - 1) \o <<ToStr(ToInt(path[Len(path)]))>>,
                          {"li", "ld"}) EXCEPT !.li = value, !.ld = args[2]]
                 ELSE IF args[2].t # "undef"
                      THEN [Op(o, path, {"oi", "od"}) EXCEPT !.oi = value, !.od = args[2]]
                      ELSE [Op(o, path, {"oi"}) EXCEPT !.oi = value]
            ELSE IF kind = "unset" THEN [Op(o, path, {"od"}) EXCEPT !.od = Null]
            ELSE IF kind = "move"
                 THEN [Op(o, path \o <<args[3].v>>, {"lm"}) EXCEPT !.lm = args[2]]
            ELSE IF kind = "remove"
                 THEN [Op(o, path \o <<args[2].v>>, {"ld"}) EXCEPT !.ld = value]
            ELSE [Op(o, path \o <<args[2].v>>, {"li"}) EXCEPT !.li = value]
    IN  IF st.heap[o].sync # "on" THEN st
        ELSE IF kind = "set" /\ ~AllowedPath(st.heap[o].allow, path) THEN st
        ELSE [st EXCEPT !.ops = Append(@, Build(IF Is(st.heap, args[1], "obs")
                                                 THEN JsonT(st.heap, args[1].id, Undef)
                                                 ELSE args[1]))]

\* The listeners ObserverHistory._initialize registers on the item: the
\* action handed to History.add, kept as the event it was built from.
HistoryListener(st, o, path, kind, args) ==
    IF st.heap[o].history # "on" THEN st
    ELSE [st EXCEPT !.hrec = Append(@, [item |-> o, kind |-> kind, name |-> path,
                                        args |-> <<IF kind = "set" /\ Is(st.heap, args[1], "obs")
                                                   THEN JsonT(st.heap, args[1].id, Undef)
                                                   ELSE args[1]>> \o Tail(args)])]

\* The index of Observer o in the order its siblings were constructed.
ParentIndexAsBuilt(heap, o) ==
    IF heap[o].pfield # 0
    THEN Cardinality({j \in 1..Len(heap[heap[o].pfield].el) :
                        /\ heap[heap[o].pfield].el[j].t = "ref"
                        /\ heap[heap[o].pfield].el[j].id < o})
    ELSE 0

\* propagate: this._parentField.indexOf(this), looked up when the event is
\* propagated (0 when there is no parent field)
ParentIndex(heap, o) ==
    IF heap[o].pfield # 0 THEN IndexOf(heap[heap[o].pfield].el, Ref(o)) ELSE 0

\* Events.emit for the two events every change emits, `${path}:${kind}` and
\* then `*:${kind}` with the path as first argument, wrapped in
\* silence()/silenceRestore() when `silent`.  The listeners of the wildcard
\* event run in the order they were registered: propagate first.
Emit(st, o, path, kind, args, silent) ==
    IF st.thrown THEN st ELSE
    LET ob == st.heap[o]
        \* a listener that calls json() (reads) keeps what it gave (saw)
        ev(wild) == IF ob.reads
                    THEN [o |-> o, wild |-> wild, path |-> path, kind |-> kind,
                          args |-> [i \in 1..Len(args) |-> Deep(st.heap, args[i])],
                          saw |-> Deep(st.heap, Ref(o))]
                    ELSE [o |-> o, wild |-> wild, path |-> path, kind |-> kind,
                          args |-> [i \in 1..Len(args) |-> Deep(st.heap, args[i])]]
        \* after unbind() of destroy() the Observer has no listener left
        Logged(s) == IF ob.destroyed /\ ~ob.bound THEN s
                     ELSE [s EXCEPT !.log = @ \o <<ev(FALSE), ev(TRUE)>>]
        \* propagate(evt)
        ind == ParentIndex(st.heap, o)
        key == IF ob.pfield # 0 THEN ToStr(ind) ELSE "null"
        Propagated(s) ==
            IF ~ob.bound \/ ob.parent = 0 \/ ind = -1 THEN s
            ELSE Call(s, "emit", <<ob.parent, ob.ppath \o <<key>> \o path, kind,
                      SubSeq(args, 1, IF Len(args) < 3 THEN Len(args) ELSE 3),
                      silent \/ ob.silent>>)
        Heard(s) ==
            IF ob.bound THEN SyncListener(HistoryListener(s, o, path, kind, args), o, path, kind, args)
            ELSE s
        Restored(s) == IF silent THEN SilenceRestore(s, o, SilenceState(st, o)) ELSE s
    IN  Restored(Heard(Propagated(Logged(IF silent THEN Silence(st, o) ELSE st))))

\* Heap writes of a call that has not thrown.
Alloc(st, obj) == IF st.thrown THEN st ELSE [st EXCEPT !.heap = Append(@, obj)]

SetData(st, id, k, v) == IF st.thrown THEN st ELSE [st EXCEPT !.heap[id].data = Put(@, k, v)]

PushKey(st, id, k) == IF st.thrown THEN st ELSE [st EXCEPT !.heap[id].keys = Append(@, k)]

SetEl(st, id, el) == IF st.thrown THEN st ELSE [st EXCEPT !.heap[id].el = el]

SetParent(st, id, parent, ppath, pfield) ==
    IF st.thrown THEN st
    ELSE [st EXCEPT !.heap[id].parent = parent, !.heap[id].ppath = ppath,
                    !.heap[id].pfield = pfield]

\* The own enumerable properties of a value, as for-in gives them.
Fields(heap, v) ==
    IF Is(heap, v, "arr")
    THEN [i \in 1..Len(heap[v.id].el) |-> [k |-> ToStr(i - 1), v |-> heap[v.id].el[i]]]
         \o heap[v.id].data
    ELSE IF v.t = "ref" THEN heap[v.id].data
    ELSE <<>>

\* a.length, -1 standing for undefined
LengthOf(heap, v) ==
    IF Is(heap, v, "arr") THEN Len(heap[v.id].el)
    ELSE IF v.t = "str" THEN (IF v.v = "" THEN 0 ELSE 1)
    ELSE -1

\* arrayEquals(a, b) of utils, for an Array a
RECURSIVE ArrayEquals(_, _, _)
ArrayEquals(heap, a, b) ==
    /\ Truthy(a) /\ Truthy(b)
    /\ LengthOf(heap, a) = LengthOf(heap, b)
    /\ \A i \in 0..(LengthOf(heap, a) - 1) :
          IF Is(heap, Prop(heap, a, ToStr(i)), "arr") /\ Is(heap, Prop(heap, b, ToStr(i)), "arr")
          THEN ArrayEquals(heap, Prop(heap, a, ToStr(i)), Prop(heap, b, ToStr(i)))
          ELSE Prop(heap, a, ToStr(i)) = Prop(heap, b, ToStr(i))

\* Observer._equals(a, b)
Equals(heap, a, b) ==
    \/ a = b
    \/ Is(heap, a, "arr") /\ Is(heap, b, "arr") /\ ArrayEquals(heap, a, b)

\* A destroy() that leaves the listeners bound.
DestroyKeepsListeners(st, this) ==
    IF st.thrown \/ st.heap[this].destroyed THEN st
    ELSE [st EXCEPT !.heap[this].destroyed = TRUE,
                    !.log = Append(@, [o |-> this, wild |-> FALSE, path |-> <<>>,
                                       kind |-> "destroy", args |-> <<>>])]

\* Observer.destroy(): the flag, emit('destroy'), then unbind() of every
\* listener of the Observer, those of its constructor included.
Destroy(st, this) ==
    IF st.thrown \/ st.heap[this].destroyed THEN st
    ELSE [st EXCEPT !.heap[this].destroyed = TRUE,
                    !.heap[this].bound = FALSE,
                    !.log = Append(@, [o |-> this, wild |-> FALSE, path |-> <<>>,
                                       kind |-> "destroy", args |-> <<>>])]
\* A method call `f` with arguments `args` on the machine state st: every
\* call one method makes of another goes through here.
Call(st, f, args) ==
    IF f = "emit" THEN Emit(st, args[1], args[2], args[3], args[4], args[5])
    ELSE IF f = "new" THEN NewObserver(st, args[1], args[2])
    ELSE IF f = "patch" THEN Patch(st, args[1], args[2], args[3])
    ELSE IF f = "prepare" THEN Prepare(st, args[1], args[2], args[3], args[4], args[5], args[6])
    ELSE IF f = "set" THEN Set(st, args[1], args[2], args[3], args[4], args[5], args[6])
    ELSE IF f = "unset" THEN Unset(st, args[1], args[2], args[3], args[4])
    ELSE IF f = "doInsert" THEN DoInsert(st, args[1], args[2], args[3], args[4], args[5], args[6])
    ELSE IF f = "insert" THEN Insert(st, args[1], args[2], args[3], args[4], args[5], args[6])
    ELSE IF f = "remove" THEN Remove(st, args[1], args[2], args[3], args[4], args[5])
    ELSE IF f = "move" THEN Move(st, args[1], args[2], args[3], args[4], args[5], args[6])
    ELSE IF f = "destroy" THEN Destroy(st, args[1])
    ELSE IF f = "removeValue" THEN RemoveValue(st, args[1], args[2], args[3], args[4], args[5])
    ELSE IF f = "undo" THEN UndoCallback(st, args[1])
    ELSE IF f = "redo" THEN RedoCallback(st, args[1])
    ELSE Write(st, args[1], args[2])

\* Observer._prepare(target, key, value, silent, remote) called on `this`.
Prepare(st, this, target, key, value, silent, remote) ==
    IF st.thrown THEN st ELSE
    LET path == Under(st.heap[target].path, key)
        new == Len(st.heap) + 1
        \* the value is an Array: target._data[key] is the copy `new`
        Wrapped(n, i) == SetEl(n, new, [n.heap[new].el EXCEPT ![i] = n.ret])
        RECURSIVE elements(_, _)
        elements(s, i) ==
            IF s.thrown \/ i > Len(s.heap[new].el) THEN s
            ELSE IF s.heap[new].el[i].t # "ref"
                 THEN elements(Call(s, "emit", <<this, Append(path, ToStr(i - 1)), "set",
                                    <<s.heap[new].el[i], Null, Bool(remote)>>, TRUE>>), i + 1)
            ELSE IF Is(s.heap, s.heap[new].el[i], "arr") THEN elements(s, i + 1)
            ELSE elements(Wrapped(Call(s, "new", <<s.heap[new].el[i],
                                                   [parent |-> this, ppath |-> path,
                                                    pfield |-> new, dups |-> {}]>>), i), i + 1)
        \* the value is an object: target._data[key] is the record `rec`
        existing == Lookup(st.heap[target].data, key)
        rec == IF TypeofObject(existing) THEN existing ELSE Ref(new)
        fields == Fields(st.heap, value)
        RECURSIVE members(_, _)
        members(s, i) ==
            IF s.thrown \/ i > Len(fields) THEN s
            ELSE IF ~HasData(s.heap, rec) THEN Throw(s)
            ELSE IF TypeofObject(fields[i].v)
                 THEN members(Call(s, "prepare", <<this, rec.id, fields[i].k, fields[i].v,
                                                   TRUE, remote>>), i + 1)
            ELSE members(Call(PushKey(SetData(s, rec.id, fields[i].k, fields[i].v), rec.id, fields[i].k),
                              "emit", <<this, Dot(path, fields[i].k), "set",
                              <<fields[i].v, Null, Bool(remote)>>, TRUE>>), i + 1)
    IN
    IF Is(st.heap, value, "arr")
    THEN Return(Call(elements(SetData(Alloc(PushKey(st, target, key),
                                            [Obj("arr") EXCEPT !.el = st.heap[value.id].el]),
                                      target, key, Ref(new)), 1),
                     "emit", <<this, path, "set", <<Ref(new), Null, Bool(remote)>>, silent>>), Bool(TRUE))
    ELSE IF HasData(st.heap, value)
    THEN \* an Observer given as data is walked through _parent and back into
         \* itself until the stack overflows
         Throw(PushKey(st, target, key))
    ELSE IF value.t = "ref"
    THEN Return(Call(members(IF TypeofObject(existing) THEN PushKey(st, target, key)
                             ELSE SetData(Alloc(PushKey(st, target, key),
                                                [Obj("rec") EXCEPT !.path = path]),
                                          target, key, Ref(new)), 1),
                     "emit", <<this, path, "set", <<value, Undef, Bool(remote)>>, silent>>), Bool(TRUE))
    ELSE Return(Call(SetData(PushKey(st, target, key), target, key, value), "emit", <<this, path, "set",
                     <<value, Undef, Bool(remote)>>, silent>>), Bool(TRUE))

\* new Observer(data, options): patch(data) runs before the parent fields
\* are set and before the propagate listeners are registered.
NewObserver(st, data, options) ==
    IF st.thrown THEN st ELSE
    LET id == Len(st.heap) + 1
        Built(s) ==
            IF s.thrown THEN s
            ELSE [s EXCEPT !.heap[id].parent = options.parent,
                           !.heap[id].ppath = options.ppath,
                           !.heap[id].pfield = options.pfield,
                           !.heap[id].silent = FALSE,
                           !.heap[id].bound = TRUE,
                           !.ret = Ref(id)]
    IN  Built(Call(Alloc(st, [Obj("obs") EXCEPT !.dups = options.dups]), "patch", <<id, data, FALSE>>))

\* Observer.patch(data, removeMissingKeys)
Patch(st, this, data, removeMissingKeys) ==
    IF st.thrown THEN st
    ELSE IF ~TypeofObject(data) THEN Return(st, Undef)
    ELSE IF HasData(st.heap, data) THEN Throw(st)
    ELSE
    LET fields == Fields(st.heap, data)
        RECURSIVE each(_, _)
        each(s, i) ==
            IF s.thrown \/ i > Len(fields) THEN s
            ELSE IF TypeofObject(fields[i].v) /\ ~HasKey(s.heap[this].data, fields[i].k)
                 THEN each(Call(s, "prepare", <<this, this, fields[i].k, fields[i].v, FALSE, FALSE>>), i + 1)
            ELSE IF Lookup(s.heap[this].data, fields[i].k) # fields[i].v
                 THEN each(Call(s, "set", <<this, SplitPath(fields[i].k), fields[i].v, FALSE, FALSE, FALSE>>), i + 1)
            ELSE each(s, i + 1)
        \* for (const key in this._data), over the keys `mine` the loop starts with
        RECURSIVE missing(_, _, _)
        missing(s, mine, i) ==
            IF s.thrown \/ i > Len(mine) THEN s
            ELSE IF ~HasKey(s.heap[this].data, mine[i]) THEN missing(s, mine, i + 1)
            ELSE IF data.t = "null" THEN Throw(s)
            ELSE IF ~HasKey(fields, mine[i])
                 THEN missing(Call(s, "unset", <<this, SplitPath(mine[i]), FALSE, FALSE>>), mine, i + 1)
            ELSE missing(s, mine, i + 1)
        Removed(s) == IF removeMissingKeys /\ ~s.thrown
                      THEN missing(s, KeysOf(s.heap[this].data), 1) ELSE s
    IN  Return(Removed(each(st, 1)), Undef)

\* `valueOld && valueOld[i] || null` for the literal valueOld
OldAt(valueOld, i) ==
    LET x == IF valueOld.t = "arr"
             THEN (IF i < Len(valueOld.e) THEN valueOld.e[i + 1] ELSE Undef)
             ELSE IF valueOld.t = "obj" THEN Lookup(valueOld.f, ToStr(i))
             ELSE IF valueOld.t = "str" /\ valueOld.v # "" /\ i = 0 THEN valueOld
             ELSE Undef
    IN  IF x.t \in {"arr", "obj"} \/ Truthy(x) THEN x ELSE Null

\* valueOld as set, unset, remove and move compute it
ValueOld(heap, obj, old) ==
    IF Is(heap, old, "obs") THEN old ELSE JsonT(heap, obj, old)

\* Observer.set, lines 328-361: the last segment addresses an Array.
SetElement(st, obj, arr, key, path, value, silent, remote, force) ==
    LET ind == ToInt(key)
        el == st.heap[arr].el
        old == Prop(st.heap, Ref(arr), ToStr(ind))
        valueOld == IF Is(st.heap, old, "obs") THEN JsonT(st.heap, old.id, Undef)
                    ELSE JsonT(st.heap, obj, old)
        Adopted(s) == IF Is(st.heap, value, "obs") THEN SetParent(s, value.id, obj, EmptyPath, arr) ELSE s
    IN  IF old = value /\ ~force THEN Return(st, Bool(FALSE))
        ELSE Return(Call(Adopted(IF ind < 0 THEN SetData(st, arr, ToStr(ind), value)
                                 ELSE IF ind < Len(el) THEN SetEl(st, arr, [el EXCEPT ![ind + 1] = value])
                                 ELSE SetEl(st, arr, el \o [i \in 1..(ind - Len(el)) |-> Undef] \o <<value>>)),
                         "emit", <<obj, path, "set", <<value, valueOld, Bool(remote)>>, silent>>), Bool(TRUE))

\* Observer.set, lines 383-438: the value is an Array.
SetArray(st, this, obj, node, key, path, value, silent, remote, force) ==
    LET old == Lookup(st.heap[node].data, key)
        valueOld == ValueOld(st.heap, obj, old)
        vel == st.heap[value.id].el
        \* the old value has the length of the new one
        RECURSIVE each(_, _)
        each(s, i) ==
            IF s.thrown \/ i > LengthOf(s.heap, Lookup(s.heap[node].data, key)) THEN s
            ELSE IF Is(s.heap, Prop(s.heap, Lookup(s.heap[node].data, key), ToStr(i - 1)), "obs")
                 THEN each(Call(s, "patch", <<Prop(s.heap, Lookup(s.heap[node].data, key), ToStr(i - 1)).id,
                                              vel[i], TRUE>>), i + 1)
            ELSE IF Prop(s.heap, Lookup(s.heap[node].data, key), ToStr(i - 1)) = vel[i] THEN each(s, i + 1)
            ELSE IF ~Is(s.heap, Lookup(s.heap[node].data, key), "arr") THEN Throw(s)
            ELSE each(Call(SetEl(s, Lookup(s.heap[node].data, key).id,
                                 [s.heap[Lookup(s.heap[node].data, key).id].el EXCEPT ![i] = vel[i]]),
                           "emit", <<obj, Append(path, ToStr(i - 1)), "set",
                           <<vel[i], OldAt(valueOld, i - 1), Bool(remote)>>, FALSE>>), i + 1)
        \* otherwise the Array is built again
        new == Len(st.heap) + 1
        RECURSIVE insert(_, _)
        insert(s, i) ==
            IF s.thrown \/ i > Len(vel) THEN s
            ELSE insert(Call(s, "doInsert", <<this, node, key, vel[i], Undef, TRUE>>), i + 1)
        RECURSIVE tell(_, _)
        tell(s, i) ==
            IF s.thrown \/ i > Len(s.heap[new].el) THEN s
            ELSE tell(Call(s, "emit", <<obj, Append(path, ToStr(i - 1)), "set",
                           <<s.heap[new].el[i], OldAt(valueOld, i - 1), Bool(remote)>>, FALSE>>), i + 1)
        Told(s) == SilenceRestore(tell(Silence(s, obj), 1), obj, SilenceState(s, obj))
    IN  IF ArrayEquals(st.heap, value, old) /\ ~force THEN Return(st, Bool(FALSE))
        ELSE Return(Call(IF Truthy(old) /\ LengthOf(st.heap, old) = Len(vel)
                         THEN SilenceRestore(each(IF Len(vel) = 0
                                                  THEN SetData(Silence(st, obj), node, key, value)
                                                  ELSE Silence(st, obj), 1),
                                             obj, SilenceState(st, obj))
                         ELSE Told(insert(SetData(Alloc(st, Obj("arr")), node, key, Ref(new)), 1)),
                         "emit", <<obj, path, "set", <<value, valueOld, Bool(remote)>>, silent>>), Bool(TRUE))

\* Observer.set, lines 439-529: the value is a keyed object.
SetRecord(st, obj, node, key, path, value, silent, remote) ==
    LET old == Lookup(st.heap[node].data, key)
        valueOld == ValueOld(st.heap, obj, old)
        keys == KeysOf(st.heap[value.id].data)
        val(k) == Lookup(st.heap[value.id].data, k)
        Did(f, s) == [s |-> s, c |-> f.c \/ (~s.thrown /\ Truthy(s.ret))]
        \* for (const n in node._data[key]._data), over the keys `mine` the
        \* loop starts with
        RECURSIVE first(_, _, _, _)
        first(f, rec, mine, i) ==
            IF f.s.thrown \/ i > Len(mine) THEN f
            ELSE IF ~HasKey(f.s.heap[rec].data, mine[i]) THEN first(f, rec, mine, i + 1)
            ELSE IF ~HasKey(st.heap[value.id].data, mine[i])
                 THEN first(Did(f, Call(f.s, "unset", <<obj, Dot(path, mine[i]), TRUE, FALSE>>)), rec, mine, i + 1)
            ELSE IF ~Equals(f.s.heap, Lookup(f.s.heap[rec].data, mine[i]), val(mine[i]))
                 THEN first(Did(f, Call(f.s, "set", <<obj, Dot(path, mine[i]), val(mine[i]),
                                                      TRUE, FALSE, FALSE>>)), rec, mine, i + 1)
            ELSE first(f, rec, mine, i + 1)
        \* for (i = 0; i < keys.length; i++)
        RECURSIVE second(_, _, _)
        second(f, rec, i) ==
            IF f.s.thrown \/ i > Len(keys) THEN f
            ELSE IF val(keys[i]).t = "undef" /\ HasKey(f.s.heap[rec].data, keys[i])
                 THEN second(Did(f, Call(f.s, "unset", <<obj, Dot(path, keys[i]), TRUE, FALSE>>)), rec, i + 1)
            ELSE IF TypeofObject(val(keys[i]))
                 THEN second(Did(f, IF HasKey(f.s.heap[rec].data, keys[i])
                                    THEN Call(f.s, "set", <<obj, Dot(path, keys[i]), val(keys[i]),
                                                            TRUE, FALSE, FALSE>>)
                                    ELSE Call(f.s, "prepare", <<obj, rec, keys[i], val(keys[i]),
                                                                TRUE, remote>>)), rec, i + 1)
            ELSE IF Lookup(f.s.heap[rec].data, keys[i]) # val(keys[i])
                 THEN second([s |-> Call(SetData(IF IndexOf(f.s.heap[rec].keys, keys[i]) = -1
                                                 THEN PushKey(f.s, rec, keys[i]) ELSE f.s,
                                                 rec, keys[i], val(keys[i])),
                                         "emit", <<obj, Dot(f.s.heap[rec].path, keys[i]), "set",
                                         <<val(keys[i]), Null, Bool(remote)>>, TRUE>>),
                              c |-> TRUE], rec, i + 1)
            ELSE second(f, rec, i + 1)
        \* if (changed)
        Done(f, rec) ==
            IF f.s.thrown THEN f.s
            ELSE IF f.c
                 THEN Return(Call(f.s, "emit", <<obj, f.s.heap[rec].path, "set",
                                  <<JsonT(f.s.heap, obj, Ref(rec)), valueOld, Bool(remote)>>, silent>>),
                             Bool(TRUE))
            ELSE Return(f.s, Bool(FALSE))
        Diff(s, rec, changed) ==
            Done(second(first([s |-> s, c |-> changed], rec, KeysOf(s.heap[rec].data), 1), rec, 1), rec)
        \* node._data[key] is not a keyed record: it is unset if truthy, and
        \* replaced by an empty record
        Renewed(s) ==
            Diff(SetData(Alloc(s, [Obj("rec") EXCEPT !.path = path]), node, key, Ref(Len(s.heap) + 1)),
                 Len(s.heap) + 1, ~Truthy(old))
    IN  \* an Observer given as value: see Prepare
        IF HasData(st.heap, value) THEN Throw(st)
        ELSE IF Truthy(old) /\ HasData(st.heap, old) THEN Diff(st, old.id, FALSE)
        ELSE IF Truthy(old)
             THEN Renewed(Call(st, "unset", <<obj, Under(st.heap[node].path, key), FALSE, FALSE>>))
        ELSE Renewed(st)

\* Observer.set, lines 531-560: any other value.
SetScalar(st, obj, node, key, path, value, silent, remote, force) ==
    LET h == st.heap
        own == HasData(h, node) \/ (Is(h, node, "plain") /\ HasKey(h[node.id].data, key))
        old == Prop(h, node, key)
    IN  IF own
        THEN IF old = value /\ ~force THEN Return(st, Bool(FALSE))
             ELSE Return(Call(SetData(st, node.id, key, value), "emit", <<obj, path, "set",
                              <<value, ValueOld(h, obj, old), Bool(remote)>>, silent>>), Bool(TRUE))
        ELSE IF node.t = "str" /\ node.v # "" /\ key = "0"
        THEN IF old = value /\ ~force THEN Return(st, Bool(FALSE))
             ELSE Throw(IF silent THEN Silence(st, obj) ELSE st)
        ELSE Throw(st)

\* Observer.set(path, value, silent, remote, force) called on `this`.
Set(st, this, keys, value, silent, remote, force) ==
    IF st.thrown THEN st ELSE
    LET length == Len(keys)
        key == keys[length]
        \* node._data[keys[i]] = {_path: path, _keys: [], _data: {}}
        Made(s, f, i) ==
            [f EXCEPT !.node = Ref(Len(s.heap) + 1),
                      !.s = PushKey(SetData(Alloc(s, [Obj("rec") EXCEPT !.path = f.path]),
                                            f.node.id, keys[i], Ref(Len(s.heap) + 1)),
                                    f.node.id, keys[i])]
        RECURSIVE walk(_, _)
        walk(f, i) ==
            IF f.s.thrown \/ i > length - 1 THEN f
            ELSE IF Is(f.s.heap, f.node, "arr")
            THEN IF Is(f.s.heap, Prop(f.s.heap, f.node, keys[i]), "obs")
                 THEN walk([f EXCEPT !.node = Prop(f.s.heap, f.node, keys[i]),
                                     !.obj = Prop(f.s.heap, f.node, keys[i]).id,
                                     !.path = SubSeq(keys, i + 1, length)], i + 1)
                 ELSE walk([f EXCEPT !.node = Prop(f.s.heap, f.node, keys[i])], i + 1)
            ELSE IF ~HasData(f.s.heap, f.node) THEN [f EXCEPT !.s = Throw(@)]
            ELSE IF TypeofObject(Lookup(f.s.heap[f.node.id].data, keys[i]))
                 THEN walk([f EXCEPT !.node = Lookup(f.s.heap[f.node.id].data, keys[i])], i + 1)
            ELSE IF Truthy(Lookup(f.s.heap[f.node.id].data, keys[i]))
                 THEN walk(Made(Call(f.s, "unset", <<f.obj, Under(f.s.heap[f.node.id].path, keys[i]), FALSE, FALSE>>),
                                f, i), i + 1)
            ELSE walk(Made(f.s, f, i), i + 1)
        Last(f) ==
            IF f.s.thrown THEN f.s
            ELSE IF Is(f.s.heap, f.node, "arr")
            THEN SetElement(f.s, f.obj, f.node.id, key, f.path, value, silent, remote, force)
            ELSE IF f.node.t \in {"undef", "null"} THEN Throw(f.s)
            ELSE IF HasData(f.s.heap, f.node) /\ ~HasKey(f.s.heap[f.node.id].data, key)
            THEN IF TypeofObject(value)
                 THEN Call(f.s, "prepare", <<f.obj, f.node.id, key, value, FALSE, remote>>)
                 ELSE Return(Call(PushKey(SetData(f.s, f.node.id, key, value), f.node.id, key),
                                  "emit", <<f.obj, f.path, "set", <<value, Null, Bool(remote)>>, silent>>),
                             Bool(TRUE))
            ELSE IF value.t = "ref" /\ ~HasData(f.s.heap, f.node) THEN Throw(f.s)
            ELSE IF Is(f.s.heap, value, "arr")
            THEN SetArray(f.s, this, f.obj, f.node.id, key, f.path, value, silent, remote, force)
            ELSE IF value.t = "ref"
            THEN SetRecord(f.s, f.obj, f.node.id, key, f.path, value, silent, remote)
            ELSE SetScalar(f.s, f.obj, f.node, key, f.path, value, silent, remote, force)
    IN  Last(walk([s |-> st, node |-> Ref(this), obj |-> this, path |-> keys], 1))

\* A loop over the keys from the first to the last.
FromFirst(length, turn) == turn

\* for (i = length - 1; i >= 0; i--): the place in _keys, counted from 1,
\* that the loop of unset looks at in a turn.
FromLast(length, turn) == length + 1 - turn

\* Observer.unset(path, silent, remote) called on `this`.
Unset(st, this, keys, silent, remote) ==
    IF st.thrown THEN st ELSE
    LET length == Len(keys)
        key == keys[length]
        RECURSIVE walk(_, _)
        walk(f, i) ==
            IF f.thrown \/ i > length - 1 THEN f
            ELSE IF Is(st.heap, f.node, "arr")
            THEN IF Is(st.heap, Prop(st.heap, f.node, keys[i]), "obs")
                 THEN walk([f EXCEPT !.node = Prop(st.heap, f.node, keys[i]),
                                     !.obj = Prop(st.heap, f.node, keys[i]).id,
                                     !.path = SubSeq(keys, i + 1, length)], i + 1)
                 ELSE walk([f EXCEPT !.node = Prop(st.heap, f.node, keys[i])], i + 1)
            ELSE IF ~HasData(st.heap, f.node) THEN [f EXCEPT !.thrown = TRUE]
            ELSE walk([f EXCEPT !.node = Lookup(st.heap[f.node.id].data, keys[i])], i + 1)
        \* the keys of the record being unset, from the last to the first
        count(f) == Len(st.heap[Lookup(st.heap[f.node.id].data, key).id].keys)
        RECURSIVE children(_, _, _)
        children(s, f, turn) ==
            IF s.thrown \/ turn > count(f) THEN s
            ELSE IF ~HasData(s.heap, Lookup(s.heap[f.node.id].data, key)) THEN Throw(s)
            ELSE children(Call(s, "unset", <<f.obj,
                                Dot(f.path,
                                       IF FromLast(count(f), turn) <= Len(s.heap[Lookup(s.heap[f.node.id].data, key).id].keys)
                                       THEN s.heap[Lookup(s.heap[f.node.id].data, key).id].keys[FromLast(count(f), turn)]
                                       ELSE "undefined"),
                                TRUE, FALSE>>), f, turn + 1)
        Cut(s, node) ==
            IF s.thrown THEN s
            ELSE [s EXCEPT !.heap[node].keys = SpliceOut(@, IndexOf(@, key)),
                           !.heap[node].data = Del(@, key)]
        Last(f) ==
            IF f.thrown \/ f.node.t \in {"undef", "null"} THEN Throw(st)
            ELSE IF ~HasData(st.heap, f.node) \/ ~HasKey(st.heap[f.node.id].data, key)
                 THEN Return(st, Bool(FALSE))
            ELSE Return(Call(Cut(IF HasData(st.heap, Lookup(st.heap[f.node.id].data, key))
                                 THEN children(st, f, 1)
                                 ELSE st, f.node.id),
                             "emit", <<f.obj, f.path, "unset",
                             <<ValueOld(st.heap, f.obj, Lookup(st.heap[f.node.id].data, key)), Bool(remote)>>,
                             silent>>), Bool(TRUE))
    IN  Last(walk([thrown |-> FALSE, node |-> Ref(this), obj |-> this, path |-> keys], 1))

\* The duplicate test of _doInsert made without regard to
\* _pathsWithDuplicates.
IsDuplicateAnywhere(heap, this, arr, path, v, allowDuplicates) ==
    /\ v.t # "null"
    /\ ~allowDuplicates
    /\ IndexOf(heap[arr].el, v) # -1

\* _doInsert: the value is not null, duplicates are not allowed, the path
\* is not in this._pathsWithDuplicates and arr.indexOf(value) !== -1
IsDuplicate(heap, this, arr, path, v, allowDuplicates) ==
    /\ v.t # "null"
    /\ ~allowDuplicates
    /\ path \notin heap[this].dups
    /\ IndexOf(heap[arr].el, v) # -1

\* Observer._doInsert(node, key, value, ind, allowDuplicates) called on
\* `this`; ind is undefined or a number.
DoInsert(st, this, node, key, value, ind, allowDuplicates) ==
    IF st.thrown THEN st ELSE
    LET arr == Lookup(st.heap[node].data, key).id
        path == Under(st.heap[node].path, key)
        \* the value v, wrapped where it is an object, goes into the Array
        Place(s, v) ==
            IF s.thrown THEN s
            ELSE IF IsDuplicate(s.heap, this, arr, path, v, allowDuplicates)
                 THEN Return(s, Undef)
            ELSE IF Is(s.heap, v, "obs")
                 THEN Return(SetParent(SetEl(s, arr, IF ind.t = "undef" THEN Append(s.heap[arr].el, v)
                                                     ELSE SpliceIn(s.heap[arr].el, ToInt(ind.v), v)),
                                       v.id, this, path, arr), v)
            ELSE Return(SetEl(s, arr, IF ind.t = "undef" THEN Append(s.heap[arr].el, v)
                                      ELSE SpliceIn(s.heap[arr].el, ToInt(ind.v), v)),
                        JsonT(s.heap, this, v))
        Wrapped(s) == IF s.thrown THEN s ELSE Place(s, s.ret)
    IN  IF value.t # "ref" \/ Is(st.heap, value, "obs") THEN Place(st, value)
        ELSE IF Is(st.heap, value, "arr")
             THEN Place(Alloc(st, [Obj("arr") EXCEPT !.el = st.heap[value.id].el,
                                                     !.data = st.heap[value.id].data]),
                        Ref(Len(st.heap) + 1))
        ELSE Wrapped(Call(st, "new", <<value, [parent |-> 0, ppath |-> EmptyPath,
                                               pfield |-> 0, dups |-> {}]>>))

\* The walk shared by insert, remove, removeValue and move: it ends at the
\* node holding the Array ("ok"), returns early ("ret") or throws.
ListWalk(heap, this, keys) ==
    LET length == Len(keys)
        key == keys[length]
        RECURSIVE walk(_, _)
        walk(f, i) ==
            IF f.end # "ok" \/ i > length - 1 THEN f
            ELSE IF Is(heap, f.node, "arr")
            THEN IF Is(heap, Prop(heap, f.node, ToStr(ToInt(keys[i]))), "obs")
                 THEN walk([f EXCEPT !.node = Prop(heap, f.node, ToStr(ToInt(keys[i]))),
                                     !.obj = Prop(heap, f.node, ToStr(ToInt(keys[i]))).id,
                                     !.path = SubSeq(keys, i + 1, length)], i + 1)
                 ELSE walk([f EXCEPT !.node = Prop(heap, f.node, ToStr(ToInt(keys[i])))], i + 1)
            ELSE IF f.node.t \in {"undef", "null"} THEN [f EXCEPT !.end = "throw"]
            ELSE IF HasData(heap, f.node) /\ HasKey(heap[f.node.id].data, keys[i])
                 THEN walk([f EXCEPT !.node = Lookup(heap[f.node.id].data, keys[i])], i + 1)
            ELSE [f EXCEPT !.end = "ret"]
        Last(f) ==
            IF f.end # "ok" THEN f
            ELSE IF f.node.t \in {"undef", "null"} THEN [f EXCEPT !.end = "throw"]
            ELSE IF ~HasData(heap, f.node) \/ ~Is(heap, Lookup(heap[f.node.id].data, key), "arr")
                 THEN [f EXCEPT !.end = "ret"]
            ELSE [f EXCEPT !.arr = Lookup(heap[f.node.id].data, key).id]
    IN  Last(walk([end |-> "ok", node |-> Ref(this), obj |-> this, path |-> keys, arr |-> 0], 1))

\* Observer.insert(path, value, ind, silent, remote); ind is undefined or
\* a number.
Insert(st, this, keys, value, ind, silent, remote) ==
    IF st.thrown THEN st ELSE
    LET Told(s, f) ==
            IF s.thrown THEN s
            ELSE Return(Call(s, "emit", <<f.obj, f.path, "insert",
                             <<s.ret, IF ind.t = "undef" THEN Num(ToStr(Len(s.heap[f.arr].el) - 1)) ELSE ind,
                               Bool(remote)>>, silent>>), Bool(TRUE))
        Last(f) ==
            IF f.end = "throw" THEN Throw(st)
            ELSE IF f.end = "ret" THEN Return(st, Undef)
            ELSE Told(Call(st, "doInsert", <<f.obj, f.node.id, keys[Len(keys)], value, ind, FALSE>>), f)
    IN  Last(ListWalk(st.heap, this, keys))

\* Observer.remove(path, ind, silent, remote)
Remove(st, this, keys, ind, silent, remote) ==
    IF st.thrown THEN st ELSE
    LET Orphaned(value) == IF Is(st.heap, value, "obs") THEN [st EXCEPT !.heap[value.id].parent = 0] ELSE st
        Last(f) ==
            IF f.end = "throw" THEN Throw(st)
            ELSE IF f.end = "ret" \/ Len(st.heap[f.arr].el) < ind THEN Return(st, Bool(FALSE))
            ELSE Return(Call(SetEl(Orphaned(Prop(st.heap, Ref(f.arr), ToStr(ind))), f.arr,
                                   SpliceOut(st.heap[f.arr].el, ind)),
                             "emit", <<f.obj, f.path, "remove",
                             <<ValueOld(st.heap, f.obj, Prop(st.heap, Ref(f.arr), ToStr(ind))),
                               Num(ToStr(ind)), Bool(remote)>>, silent>>),
                        Bool(TRUE))
    IN  Last(ListWalk(st.heap, this, keys))

\* Observer.move(path, indOld, indNew, silent, remote)
Move(st, this, keys, indOld, indNew, silent, remote) ==
    IF st.thrown THEN st ELSE
    LET Moved(f, value, out, to) ==
            Return(Call(SetEl(st, f.arr, SpliceIn(out, to, value)), "emit", <<f.obj, f.path, "move",
                        <<ValueOld(st.heap, f.obj, value), Num(ToStr(to)), Num(ToStr(indOld)),
                          Bool(remote)>>, silent>>),
                   Bool(TRUE))
        Last(f) ==
            IF f.end = "throw" THEN Throw(st)
            ELSE IF f.end = "ret" \/ Len(st.heap[f.arr].el) < indOld \/ Len(st.heap[f.arr].el) < indNew
                    \/ indOld = indNew
                 THEN Return(st, Undef)
            ELSE Moved(f, Prop(st.heap, Ref(f.arr), ToStr(indOld)), SpliceOut(st.heap[f.arr].el, indOld),
                       IF indNew = -1 THEN Len(SpliceOut(st.heap[f.arr].el, indOld)) ELSE indNew)
    IN  Last(ListWalk(st.heap, this, keys))

\* Observer.removeValue
RemoveValue(st, this, keys, value, silent, remote) ==
    IF st.thrown THEN st ELSE
    LET Orphaned(v) == IF Is(st.heap, v, "obs") THEN [st EXCEPT !.heap[v.id].parent = 0] ELSE st
        Last(f) ==
            IF f.end = "throw" THEN Throw(st)
            ELSE IF f.end = "ret" \/ IndexOf(st.heap[f.arr].el, value) = -1 THEN Return(st, Undef)
            ELSE LET ind == IndexOf(st.heap[f.arr].el, value)
                 IN  Return(Call(SetEl(Orphaned(Prop(st.heap, Ref(f.arr), ToStr(ind))), f.arr,
                                       SpliceOut(st.heap[f.arr].el, ind)),
                                 "emit", <<f.obj, f.path, "remove",
                                 <<ValueOld(st.heap, f.obj, Prop(st.heap, Ref(f.arr), ToStr(ind))),
                                   Num(ToStr(ind)), Bool(remote)>>, silent>>),
                            Bool(TRUE))
    IN  Last(ListWalk(st.heap, this, keys))

\* item.history.enabled = false; body; item.history.enabled = true, the
\* last skipped when the body throws
Unrecorded(st, o, Body(_)) ==
    LET done == Body([st EXCEPT !.heap[o].history = "off"])
    IN  IF done.thrown THEN done ELSE [done EXCEPT !.heap[o].history = "on"]

\* item.set(path, value) with a value kept by a callback
SetKept(st, o, path, value) ==
    Call([st EXCEPT !.heap = AllocT(st.heap, value).heap], "set",
         <<o, path, AllocT(st.heap, value).v, FALSE, FALSE, FALSE>>)

\* item.insert(path, value, ind) with a value kept by a callback
InsertKept(st, o, path, value, ind) ==
    Call([st EXCEPT !.heap = AllocT(st.heap, value).heap], "insert",
         <<o, path, AllocT(st.heap, value).v, ind, FALSE, FALSE>>)

\* The undo callback of the action r that ObserverHistory built.
UndoCallback(st0, r) ==
    LET Body(st) ==
            CASE r.kind = "set" ->
                    IF r.args[2].t = "undef" THEN Call(st, "unset", <<r.item, r.name, FALSE, FALSE>>)
                    ELSE SetKept(st, r.item, r.name, r.args[2])
              [] r.kind = "unset" -> SetKept(st, r.item, r.name, r.args[1])
              [] r.kind = "insert" -> Call(st, "removeValue", <<r.item, r.name, r.args[1], FALSE, FALSE>>)
              [] r.kind = "remove" -> InsertKept(st, r.item, r.name, r.args[1], r.args[2])
              [] OTHER -> Call(st, "move", <<r.item, r.name, ToInt(r.args[2].v), ToInt(r.args[3].v),
                                            FALSE, FALSE>>)
    IN  Unrecorded(st0, r.item, Body)

\* The redo callback of the action r that ObserverHistory built.
RedoCallback(st0, r) ==
    LET Body(st) ==
            CASE r.kind = "set" ->
                    IF r.args[1].t = "undef" THEN Call(st, "unset", <<r.item, r.name, FALSE, FALSE>>)
                    ELSE SetKept(st, r.item, r.name, r.args[1])
              [] r.kind = "unset" -> Call(st, "unset", <<r.item, r.name, FALSE, FALSE>>)
              [] r.kind = "insert" -> InsertKept(st, r.item, r.name, r.args[1], r.args[2])
              [] r.kind = "remove" -> Call(st, "removeValue", <<r.item, r.name, r.args[1], FALSE, FALSE>>)
              [] OTHER -> Call(st, "move", <<r.item, r.name, ToInt(r.args[3].v), ToInt(r.args[2].v),
                                            FALSE, FALSE>>)
    IN  Unrecorded(st0, r.item, Body)

(***************************************************************************)
(* ObserverSync (observer-sync.ts)                                         *)
(***************************************************************************)

\* A dispatch that tests od before the other fields.
DispatchDeleteFirst(has) ==
    IF "od" \in has THEN "unset"
    ELSE IF "oi" \in has \/ {"ld", "li"} \subseteq has THEN "set"
    ELSE IF "ld" \in has THEN "remove"
    ELSE IF "li" \in has THEN "insert"
    ELSE IF "lm" \in has THEN "move"
    ELSE "unknown"

\* The branch write(op) takes, from the fields that op holds.
Dispatch(has) ==
    IF "oi" \in has \/ {"ld", "li"} \subseteq has THEN "set"
    ELSE IF "ld" \in has THEN "remove"
    ELSE IF "li" \in has THEN "insert"
    ELSE IF "lm" \in has THEN "move"
    ELSE IF "od" \in has THEN "unset"
    ELSE "unknown"

\* ObserverSync.write(op) of the synchronizer of `item`; the prefix is
\* empty.  The `sync` event is kept in the log of the call.
Write(st, item, op) ==
    LET historyReEnable == st.heap[item].history = "on"
        front == SubSeq(op.p, 1, Len(op.p) - 1)
        last == ToInt(op.p[Len(op.p)])
        \* this._enabled = false, after item.history.enabled = false
        Off(heap) ==
            [st EXCEPT !.heap = [heap EXCEPT ![item].sync = IF op.has = {} THEN @ ELSE "off",
                                             ![item].history = IF historyReEnable THEN "off" ELSE @]]
        Applied(a) ==
            CASE Dispatch(op.has) = "set" ->
                    Call(Off(a.heap), "set", <<item, op.p, a.v, FALSE, TRUE, FALSE>>)
              [] Dispatch(op.has) = "remove" ->
                    Call(Off(a.heap), "remove", <<item, front, last, FALSE, TRUE>>)
              [] Dispatch(op.has) = "insert" ->
                    Call(Off(a.heap), "insert", <<item, front, a.v, Num(ToStr(last)), FALSE, TRUE>>)
              [] Dispatch(op.has) = "move" ->
                    Call(Off(a.heap), "move", <<item, front, last, ToInt(op.lm.v), FALSE, TRUE>>)
              [] Dispatch(op.has) = "unset" ->
                    Call(Off(a.heap), "unset", <<item, op.p, FALSE, TRUE>>)
              [] OTHER -> Off(a.heap)
        \* this._enabled = true, item.history.enabled = true, emit('sync', op)
        Synced(s) ==
            IF s.thrown THEN s
            ELSE [s EXCEPT !.heap[item].sync = IF op.has = {} THEN @ ELSE "on",
                           !.heap[item].history = IF historyReEnable THEN "on" ELSE @,
                           !.log = Append(@, [o |-> item, wild |-> FALSE, path |-> <<>>,
                                              kind |-> "sync", args |-> <<>>])]
    IN  Synced(Applied(AllocT(st.heap, IF "oi" \in op.has THEN op.oi
                                       ELSE IF "li" \in op.has THEN op.li ELSE Undef)))

(***************************************************************************)
(* Calls on Observers.  `tree` is the Observer the calls are made on; in   *)
(* the specification with a synchronizer `twin` is a second Observer built *)
(* from the same document, and `queue` holds the operations emitted by the *)
(* ObserverSync of `tree` and not yet written to `twin`.  `tlast`          *)
(* describes the last call, `faulted` tells that a call on `tree` threw.   *)
(***************************************************************************)

\* Calls on `tree` and inbound operations made in one behaviour.
MaxSteps == 2

Field(k, v) == [k |-> k, v |-> v]

N0 == Num("0")

N1 == Num("1")

X1 == Rec(<<Field("x", N1)>>)

X0 == Rec(<<Field("x", N0)>>)

XY1 == Rec(<<Field("x", Rec(<<Field("y", N1)>>))>>)

\* The documents the Observers start from.
Docs ==
    { Rec(<<>>),
      Rec(<<Field("a", N1)>>),
      Rec(<<Field("a", N0)>>),
      Rec(<<Field("a", X1)>>),
      Rec(<<Field("a", XY1)>>),
      Rec(<<Field("items", Arr(<<N1, N0>>))>>),
      Rec(<<Field("items", Arr(<<Arr(<<N1>>)>>))>>),
      Rec(<<Field("a", Null), Field("items", Arr(<<X1, X0>>))>>),
      Rec(<<Field("items", Arr(<<X1>>))>>) }

\* The paths and values of the calls.
Paths ==
    { <<"a">>, <<"a", "x">>, <<"a", "x", "y">>, <<"items">>,
      <<"items", "0">>, <<"items", "1">>, <<"items", "0", "x">> }

Values ==
    { N0, N1, Null, Rec(<<>>), X1, XY1,
      Arr(<<N1>>), Arr(<<N1, N0>>), Arr(<<X1>>), Arr(<<Arr(<<N1>>)>>) }

Forces(V) == IF V = N1 THEN {FALSE, TRUE} ELSE {FALSE}

ListPaths == { <<"items">> }

Inds == { Undef, N0, N1 }

Patches == { Rec(<<>>), X1, XY1, Rec(<<Field("a", N1), Field("items", Arr(<<X0>>))>>) }

\* Every segment that addresses an element of an Array is an index of the
\* Array or the one after its last.
Addressable(h, o, keys) ==
    \A i \in 1..Len(keys) :
        Is(h, GetWalk(h, o, SubSeq(keys, 1, i - 1)).node, "arr")
            => ToInt(keys[i]) \in 0..Len(h[GetWalk(h, o, SubSeq(keys, 1, i - 1)).node.id].el)

NoOptions == [parent |-> 0, ppath |-> EmptyPath, pfield |-> 0, dups |-> {}]

\* new Observer(D) for the literal D, in the heap h
Construct(h, D) ==
    LET Built(a) == Call(Machine(a.heap), "new", <<a.v, NoOptions>>)
    IN  Built(AllocT(h, D))

OpText(h, op) ==
    [p |-> op.p, has |-> op.has, oi |-> Deep(h, op.oi), od |-> Deep(h, op.od),
     li |-> Deep(h, op.li), ld |-> Deep(h, op.ld), lm |-> op.lm]

\* What is kept of a call: the Observer it was made on, its arguments (at
\* is the index or indices of a call on an Array), what has(path),
\* get(path) and json() gave before it, and its outcome st.
Outcome(op, who, path, value, force, at, st) ==
    [op |-> op, who |-> who, path |-> path, value |-> value, force |-> force, at |-> at,
     had |-> who # 0 /\ path # <<>> /\ Has(store, who, path) = Bool(TRUE),
     pre |-> IF who = 0 \/ path = <<>> THEN Undef ELSE Deep(store, Get(store, who, path)),
     was |-> IF who = 0 THEN Undef ELSE Deep(store, Ref(who)),
     ret |-> Deep(st.heap, st.ret), thrown |-> st.thrown, log |-> st.log,
     ops |-> [i \in 1..Len(st.ops) |-> OpText(st.heap, st.ops[i])],
     hrec |-> Len(st.hrec)]

\* A call on `tree`, or on an Observer in it, has run to st.
Called(op, who, path, value, force, at, st) ==
    /\ store' = st.heap
    /\ tlast' = Outcome(op, who, path, value, force, at, st)
    /\ queue' = queue \o SelectSeq(st.ops, LAMBDA o : o.item = tree)
    /\ steps' = steps + 1
    /\ faulted' = (faulted \/ st.thrown)
    /\ UNCHANGED <<tree, twin, bus>>
    /\ UNCHANGED hvars

\* A call is made on `tree` once the operations it emitted are delivered.
Ready == tree # 0 /\ queue = <<>>

\* Fewer than n calls have been made
Within(n) == steps < n

\* The arguments of a call, built in the heap
Given(V) == AllocT(store, V)

TSet(P, V, force) ==
    /\ Ready /\ Addressable(store, tree, P)
    /\ Called("set", tree, P, V, force, <<>>,
              Call(Machine(Given(V).heap), "set", <<tree, P, Given(V).v, FALSE, FALSE, force>>))

\* What a value is in the heap: the kind of its object, "" for a primitive.
Class(heap, v) == IF v.t = "ref" THEN heap[v.id].c ELSE ""

\* The _keys of a keyed record and of the records in it, as they stand.
RECURSIVE KeyLists(_, _)
KeyLists(heap, v) ==
    IF ~Is(heap, v, "rec") \/ heap[v.id].keys = <<>> THEN <<>>
    ELSE [i \in 1..Len(heap[v.id].keys) |->
             [k |-> heap[v.id].keys[i],
              under |-> KeyLists(heap, Lookup(heap[v.id].data, heap[v.id].keys[i]))]]

\* unset(P) called on `tree`; `at` keeps what the value at P was, and its
\* _keys.
TUnset(P) ==
    /\ Ready /\ Addressable(store, tree, P)
    /\ Called("unset", tree, P, Undef, FALSE,
              <<Class(store, GetRaw(store, tree, P)), KeyLists(store, GetRaw(store, tree, P))>>,
              Call(Machine(store), "unset", <<tree, P, FALSE, FALSE>>))

TInsert(P, V, ind) ==
    /\ Ready /\ Addressable(store, tree, P)
    /\ Called("insert", tree, P, V, FALSE, <<ind>>,
              Call(Machine(Given(V).heap), "insert", <<tree, P, Given(V).v, ind, FALSE, FALSE>>))

TRemove(P, ind) ==
    /\ Ready /\ Addressable(store, tree, P)
    /\ Called("remove", tree, P, Undef, FALSE, <<ind>>,
              Call(Machine(store), "remove", <<tree, P, ind, FALSE, FALSE>>))

TMove(P, indOld, indNew) ==
    /\ Ready /\ Addressable(store, tree, P)
    /\ Called("move", tree, P, Undef, FALSE, <<indOld, indNew>>,
              Call(Machine(store), "move", <<tree, P, indOld, indNew, FALSE, FALSE>>))

TPatch(V) ==
    /\ Ready
    /\ Called("patch", tree, <<>>, V, FALSE, <<>>,
              Call(Machine(Given(V).heap), "patch", <<tree, Given(V).v, FALSE>>))

\* The Observer that is element i of `items`, 0 if there is none
Child(i) ==
    IF Is(store, Prop(store, Prop(store, Ref(tree), "items"), ToStr(i)), "obs")
    THEN Prop(store, Prop(store, Ref(tree), "items"), ToStr(i)).id
    ELSE 0

\* set(key, V) called on the Observer that is element i of `items`
TChildSet(i, key, V) ==
    /\ Ready
    /\ Child(i) # 0
    /\ Called("child.set", Child(i), <<key>>, V, FALSE, <<i>>,
              Call(Machine(store), "set", <<Child(i), <<key>>, V, FALSE, FALSE, FALSE>>))

TNext ==
    \/ \E P \in Paths, V \in Values : \E force \in Forces(V) : Within(MaxSteps) /\ TSet(P, V, force)
    \/ \E P \in Paths : Within(MaxSteps) /\ TUnset(P)
    \/ \E P \in ListPaths, V \in Values, ind \in Inds : Within(MaxSteps) /\ TInsert(P, V, ind)
    \/ \E P \in ListPaths, ind \in 0..2 : Within(MaxSteps) /\ TRemove(P, ind)
    \/ \E P \in ListPaths, indOld \in 0..2, indNew \in -1..2 : Within(MaxSteps) /\ TMove(P, indOld, indNew)
    \/ \E V \in Patches : Within(MaxSteps) /\ TPatch(V)
    \/ \E i \in 0..1, V \in {N0, N1} : Within(MaxSteps) /\ TChildSet(i, "x", V)

\* `tree` is new Observer(D)
Booted(D, st) ==
    /\ store = st.heap
    /\ tree = st.ret.id
    /\ tlast = Outcome("new", 0, <<>>, D, FALSE, <<>>, st)

TInit ==
    /\ HistoryIdle
    /\ \E D \in Docs : Booted(D, Construct(<<>>, D))
    /\ twin = 0
    /\ queue = <<>>
    /\ steps = 0
    /\ faulted = FALSE
    /\ bus = NoBus

SpecTree == TInit /\ [][TNext]_vars

(***************************************************************************)
(* Properties of the calls on one Observer (SpecTree).                     *)
(***************************************************************************)

\* The last call emitted, on Observer o, the event `<path>:<kind>` (wild
\* FALSE) or `*:<kind>` with the path as first argument (wild TRUE).
Fired(o, wild, path, kind) ==
    \E i \in 1..Len(tlast.log) :
        /\ tlast.log[i].o = o
        /\ tlast.log[i].wild = wild
        /\ tlast.log[i].path = path
        /\ tlast.log[i].kind = kind

\* C1: a set(P, V) made when get(P) is not deep-equal to V returns true,
\* emits `<P>:set` and `*:set` with P, and leaves get(P) deep-equal to V.
C1_SetChanges ==
    (tlast.op = "set" /\ ~DeepEq(tlast.pre, tlast.value))
        => /\ ~tlast.thrown
           /\ tlast.ret = Bool(TRUE)
           /\ Fired(tree, FALSE, tlast.path, "set")
           /\ Fired(tree, TRUE, tlast.path, "set")
           /\ DeepEq(Deep(store, Get(store, tree, tlast.path)), tlast.value)

\* C2: a set(P, V) without force made when P holds a value and V is
\* deep-equal to get(P) returns false and emits no event.
C2_NoOpSet ==
    (tlast.op = "set" /\ ~tlast.force /\ tlast.had /\ DeepEq(tlast.pre, tlast.value))
        => /\ ~tlast.thrown
           /\ tlast.ret = Bool(FALSE)
           /\ tlast.log = <<>>

\* In v and in every record and Observer under it, _keys lists each own key
\* of _data once and nothing else.
RECURSIVE KeysMatch(_, _)
KeysMatch(heap, v) ==
    IF Is(heap, v, "arr")
    THEN \A i \in 1..Len(heap[v.id].el) : KeysMatch(heap, heap[v.id].el[i])
    ELSE IF HasData(heap, v)
    THEN LET keys == heap[v.id].keys
             data == heap[v.id].data
         IN  /\ \A i \in 1..Len(keys) : HasKey(data, keys[i])
             /\ \A i \in 1..Len(data) :
                    Cardinality({j \in 1..Len(keys) : keys[j] = data[i].k}) = 1
             /\ \A i \in 1..Len(data) : KeysMatch(heap, data[i].v)
    ELSE TRUE

\* C10: after any calls of set, unset, insert, remove, move and patch that
\* returned, _keys and the own keys of _data correspond one to one in the
\* root Observer and in every record under it.
C10_KeysMatchData == ~faulted => KeysMatch(store, Ref(tree))

\* C16: an unset(P) made when has(P) is not true, the final segment or an
\* intermediate one being absent, returns false, emits no event and leaves
\* the Tree as it was.
C16_UnsetAbsent ==
    (tlast.op = "unset" /\ ~tlast.had)
        => /\ ~tlast.thrown
           /\ tlast.ret = Bool(FALSE)
           /\ tlast.log = <<>>
           /\ Deep(store, Ref(tlast.who)) = tlast.was

\* C17: no call of set, unset, insert, remove or move throws, whatever the
\* path, and a call that returns false or undefined has emitted nothing and
\* has left the Tree as it was.
C17_NoCallThrows ==
    tlast.op \in {"set", "unset", "insert", "remove", "move"}
        => /\ ~tlast.thrown
           /\ tlast.ret \in {Bool(FALSE), Undef}
                 => tlast.log = <<>> /\ Deep(store, Ref(tlast.who)) = tlast.was

(***************************************************************************)
(* Observers that are elements of the Array `items` (SpecItems): insert,   *)
(* remove and move on `items`, then set on one of its elements.            *)
(***************************************************************************)

\* Calls on `items` and on its elements made in one behaviour.
MaxListSteps == 4

ItemDocs ==
    { Rec(<<Field("items", Arr(<<X1, X0>>))>>),
      Rec(<<Field("items", Arr(<<X0, X1, XY1>>))>>),
      Rec(<<Field("a", N1), Field("items", Arr(<<X1>>))>>) }

ItemValues == { X0, X1, N1 }

LInit ==
    /\ HistoryIdle
    /\ \E D \in ItemDocs : Booted(D, Construct(<<>>, D))
    /\ twin = 0
    /\ queue = <<>>
    /\ steps = 0
    /\ faulted = FALSE
    /\ bus = NoBus

LNext ==
    \/ \E V \in ItemValues, ind \in Inds : Within(MaxListSteps - 1) /\ TInsert(<<"items">>, V, ind)
    \/ \E ind \in 0..2 : Within(MaxListSteps - 1) /\ TRemove(<<"items">>, ind)
    \/ \E indOld \in 0..2, indNew \in 0..2 : Within(MaxListSteps - 1) /\ TMove(<<"items">>, indOld, indNew)
    \/ \E i \in 0..3, V \in {N0, N1} : Within(MaxListSteps) /\ TChildSet(i, "x", V)

SpecItems == LInit /\ [][LNext]_vars

\* C9: a set('x', v) that changes the value, called on the Observer that is
\* element i of `items` when the call is made, emits on the parent
\* `items.<i>.x:set` and `*:set` with the path items.<i>.x, and no event of
\* the parent names another element.
C9_PropagatesAtIndex ==
    (tlast.op = "child.set" /\ ~DeepEq(tlast.pre, tlast.value))
        => /\ ~tlast.thrown
           /\ tlast.ret = Bool(TRUE)
           /\ Fired(tree, FALSE, <<"items", ToStr(tlast.at[1]), "x">>, "set")
           /\ Fired(tree, TRUE, <<"items", ToStr(tlast.at[1]), "x">>, "set")
           /\ \A n \in 1..Len(tlast.log) :
                  tlast.log[n].o = tree
                      => tlast.log[n].path = <<"items", ToStr(tlast.at[1]), "x">>

\* A changing set on an element that stands behind an element constructed
\* after it: an insert or a move has shifted it since it was constructed.
C9_Witness ==
    /\ tlast.op = "child.set"
    /\ ~DeepEq(tlast.pre, tlast.value)
    /\ tlast.ret = Bool(TRUE)
    /\ tlast.at[1] > 0
    /\ \E j \in 0..(tlast.at[1] - 1) : Child(j) > tlast.who

(***************************************************************************)
(* new Observer(D).json() for the documents D of NewDocs (SpecNew).        *)
(***************************************************************************)

\* The values of the fields of the documents: scalars, null, records and
\* Arrays of scalars, of records and of Arrays.
NewValues ==
    { N1, N0, Null, Str("s"), Str(""), Bool(FALSE),
      Rec(<<>>), X1, XY1,
      Rec(<<Field("b", N1), Field("a", Null)>>),
      Rec(<<Field("1", N0), Field("b", Arr(<<X1>>))>>),
      Rec(<<Field("a.b", N1)>>),
      Arr(<<>>), Arr(<<N1, N0>>), Arr(<<Null, Str("s")>>),
      Arr(<<X1>>), Arr(<<X1, X1>>), Arr(<<XY1, Rec(<<>>)>>),
      Arr(<<Arr(<<N1>>)>>), Arr(<<Arr(<<>>), Arr(<<X1>>)>>),
      Arr(<<Rec(<<Field("b", Arr(<<N0>>))>>)>>) }

\* The keys of the documents, in the orders in which for-in gives the keys
\* of an object: the integer keys first.
NewKeys == { <<"a">>, <<"1">>, <<"a.b">>, <<"a", "b">>, <<"b", "a">>, <<"1", "a">>, <<"a.b", "a">> }

NewSeconds == { N1, Null, X1, Arr(<<X0>>) }

NewDocs ==
    {Rec(<<>>)}
        \cup { Rec(<<Field(ks[1], v)>>) : ks \in {k \in NewKeys : Len(k) = 1}, v \in NewValues }
        \cup { Rec(<<Field(ks[1], v), Field(ks[2], w)>>) :
                   ks \in {k \in NewKeys : Len(k) = 2}, v \in NewValues, w \in NewSeconds }

\* tree = new Observer(D)
New(D) ==
    LET Made(st) ==
            /\ store' = st.heap
            /\ tree' = st.ret.id
            /\ tlast' = Outcome("new", 0, <<>>, D, FALSE, <<>>, st)
            /\ steps' = steps + 1
            /\ faulted' = st.thrown
    IN  /\ tree = 0
        /\ Made(Construct(store, D))
        /\ UNCHANGED <<twin, queue, bus>>
        /\ UNCHANGED hvars

NNext == \E D \in NewDocs : New(D)

SpecNew == HInit /\ [][NNext]_vars

\* C3: new Observer(D).json() is D, with the fields in the order of D.
C3_RoundTrip == tlast.op = "new" => ~tlast.thrown /\ tlast.ret = tlast.value

(***************************************************************************)
(* Two Observers built from one document, each with an ObserverSync, the   *)
(* second with an ObserverHistory (SpecSync).  The operations that the     *)
(* ObserverSync of `tree` emits are written to `twin` in order; inbound    *)
(* operations from elsewhere are written to `twin` as well.                *)
(***************************************************************************)

\* Calls on `tree` and inbound operations made in one behaviour.
MaxSyncSteps == 1

\* tree = new Observer(D) in a, twin = new Observer(D) in b, then
\* new ObserverSync({ item }) for both and new ObserverHistory({ item })
\* for twin
Paired(D, a, b) ==
    /\ store = [b.heap EXCEPT ![a.ret.id].sync = "on",
                              ![b.ret.id].sync = "on",
                              ![b.ret.id].history = "on"]
    /\ tree = a.ret.id
    /\ twin = b.ret.id
    /\ tlast = Outcome("new", 0, <<>>, D, FALSE, <<>>, b)

SInit ==
    /\ HistoryIdle
    /\ \E D \in Docs :
           LET First(a) == Paired(D, a, Construct(a.heap, D))
           IN  First(Construct(<<>>, D))
    /\ queue = <<>>
    /\ steps = 0
    /\ faulted = FALSE
    /\ bus = NoBus

\* The operations written to `twin` that no call on `tree` emitted.
Inbound ==
    { [Op(0, <<"a">>, {"oi"}) EXCEPT !.oi = N1],
      [Op(0, <<"a">>, {"oi", "od"}) EXCEPT !.oi = X1, !.od = N1],
      [Op(0, <<"a", "x">>, {"oi"}) EXCEPT !.oi = N0],
      [Op(0, <<"a">>, {"od"}) EXCEPT !.od = Null],
      [Op(0, <<"a", "x">>, {"od"}) EXCEPT !.od = Null],
      [Op(0, <<"items", "0">>, {"li"}) EXCEPT !.li = X0],
      [Op(0, <<"items", "1">>, {"li"}) EXCEPT !.li = N1],
      [Op(0, <<"items", "0">>, {"li", "ld"}) EXCEPT !.li = N0, !.ld = N1],
      [Op(0, <<"items", "0">>, {"ld"}) EXCEPT !.ld = N1],
      [Op(0, <<"items", "0">>, {"lm"}) EXCEPT !.lm = N1],
      Op(0, <<"a">>, {}),
      Op(0, <<"items", "0">>, {}),
      [Op(0, <<"items", "0">>, {"ld", "lm"}) EXCEPT !.ld = N1, !.lm = N1],
      [Op(0, <<"items", "0">>, {"li", "od"}) EXCEPT !.li = N0, !.od = Null],
      [Op(0, <<"items", "1">>, {"lm", "od"}) EXCEPT !.lm = N0, !.od = Null],
      [Op(0, <<"a">>, {"oi", "lm"}) EXCEPT !.oi = N0, !.lm = N1] }

\* write(op) of the ObserverSync of `twin` has run to st (`at` keeps op and
\* what sync.enabled and history.enabled were before); a write of the
\* operations of one call on `tree` remembers that an earlier one threw.
Written(name, op, st) ==
    /\ store' = st.heap
    /\ tlast' = [Outcome(name, twin, <<>>, Undef, FALSE,
                         <<OpText(store, op), store[twin].sync, store[twin].history>>, st)
                    EXCEPT !.thrown = @ \/ (name = "deliver" /\ tlast.op = "deliver" /\ tlast.thrown)]
    /\ UNCHANGED <<tree, twin, faulted, bus>>
    /\ UNCHANGED hvars

\* The oldest operation emitted by the ObserverSync of `tree` is written to
\* `twin`.
Deliver ==
    /\ twin # 0
    /\ queue # <<>>
    /\ Written("deliver", Head(queue), Call(Machine(store), "write", <<twin, Head(queue)>>))
    /\ queue' = Tail(queue)
    /\ steps' = steps

\* An operation from elsewhere is written to `twin`.
Receive(op) ==
    /\ twin # 0
    /\ queue = <<>>
    /\ Written("write", op, Call(Machine(store), "write", <<twin, op>>))
    /\ queue' = queue
    /\ steps' = steps + 1

SNext ==
    \/ \E P \in Paths, V \in Values : \E force \in Forces(V) : Within(MaxSyncSteps) /\ TSet(P, V, force)
    \/ \E P \in Paths : Within(MaxSyncSteps) /\ TUnset(P)
    \/ \E P \in ListPaths, V \in Values, ind \in Inds : Within(MaxSyncSteps) /\ TInsert(P, V, ind)
    \/ \E P \in ListPaths, ind \in 0..2 : Within(MaxSyncSteps) /\ TRemove(P, ind)
    \/ \E P \in ListPaths, indOld \in 0..2, indNew \in -1..2 : Within(MaxSyncSteps) /\ TMove(P, indOld, indNew)
    \/ Deliver
    \/ \E op \in Inbound : Within(MaxSyncSteps) /\ Receive(op)

SpecSync == SInit /\ [][SNext]_vars

\* C7: once the operations emitted by one call of set, unset, insert,
\* remove or move on `tree` are written to `twin`, every write has returned
\* and json() of `twin` deep-equals json() of `tree`.
C7_SyncRoundTrip ==
    (steps = 1 /\ ~faulted /\ queue = <<>> /\ tlast.op \notin {"new", "write"})
        => /\ tlast.op = "deliver" => ~tlast.thrown
           /\ DeepEq(Deep(store, Ref(twin)), Deep(store, Ref(tree)))

\* C8: write(op) emits no operation, hands no action to the History of the
\* item, and emits the `sync` event once, after the call on the item.
C8_NoFeedback ==
    tlast.op \in {"deliver", "write"}
        => /\ tlast.ops = <<>>
           /\ tlast.hrec = 0
           /\ tlast.log # <<>>
           /\ \A n \in 1..Len(tlast.log) :
                  tlast.log[n].kind = "sync" <=> n = Len(tlast.log)

(***************************************************************************)
(* insert of scalars into the Array `items` of an Observer constructed     *)
(* with or without `items` in pathsWithDuplicates (SpecDups).              *)
(***************************************************************************)

\* Calls of insert made in one behaviour.
MaxDupSteps == 2

DupDocs ==
    { Rec(<<Field("items", Arr(<<>>))>>),
      Rec(<<Field("items", Arr(<<N1>>))>>),
      Rec(<<Field("items", Arr(<<N1, N0>>))>>),
      Rec(<<Field("items", Arr(<<Str("s"), Null>>))>>) }

DupValues == { N0, N1, Str("s"), Bool(FALSE), Null }

\* new Observer(D, { pathsWithDuplicates: paths }) for the literal D
ConstructExempt(h, D, paths) ==
    LET Built(a) == Call(Machine(a.heap), "new", <<a.v, [NoOptions EXCEPT !.dups = paths]>>)
    IN  Built(AllocT(h, D))

DInit ==
    /\ HistoryIdle
    /\ \E D \in DupDocs, paths \in {{}, {<<"items">>}} : Booted(D, ConstructExempt(<<>>, D, paths))
    /\ twin = 0
    /\ queue = <<>>
    /\ steps = 0
    /\ faulted = FALSE
    /\ bus = NoBus

DNext == \E V \in DupValues, ind \in Inds : Within(MaxDupSteps) /\ TInsert(<<"items">>, V, ind)

SpecDups == DInit /\ [][DNext]_vars

\* The last call was insert(path, v) of a scalar v that was an element of
\* the Array at path.
DuplicateInsert ==
    /\ tlast.op = "insert"
    /\ tlast.value.t \in {"num", "str", "bool"}
    /\ tlast.pre.t = "arr"
    /\ \E i \in 1..Len(tlast.pre.e) : tlast.pre.e[i] = tlast.value

C12_RejectedInsertSilent ==
    (DuplicateInsert /\ tlast.path \notin store[tree].dups)
        => /\ tlast.log = <<>>
           /\ tlast.ops = <<>>
           /\ tlast.hrec = 0

(***************************************************************************)
(* Emissions (events.ts): clients and listeners register, remove and emit  *)
(* on two emitters, the second one attachable to the first.                *)
(***************************************************************************)
Thrown == {"Error", "null"}

EInit == HInit

ENext ==
    \/ \E b \in Emitters : \E f \in FnsOf(b) : On(b, f)
    \/ \E b \in Emitters : \E f \in FnsOf(b) : Unbind(b, f)
    \/ \E b \in Emitters : UnbindName(b)
    \/ AddEmitter
    \/ \E b \in Emitters : EmitCall(b)
    \/ Invoke
    \/ ListenerReturn
    \/ \E v \in Thrown : ListenerThrow(v)
    \/ Forward
    \/ EmitReturn

SpecEvents == EInit /\ [][ENext]_vars

IsPrefix(s, t) == Len(s) <= Len(t) /\ s = SubSeq(t, 1, Len(s))

\* C13: an emit call that returns has invoked exactly the listeners that were
\* registered when it was called, in registration order, whatever listeners
\* were added or removed meanwhile; an emit call in progress has invoked the
\* first of them.
C13_EmitSnapshot ==
    /\ (bus.done.bus # 0 /\ bus.done.via # "thrown") => bus.done.called = bus.done.reg
    /\ \A k \in 1..Len(bus.stack) : IsPrefix(bus.stack[k].called, bus.stack[k].reg)

\* An emission of two listeners or more returned after a listener was added
\* and one not yet invoked was removed while it ran.
C13_Witness ==
    /\ bus.done.bus # 0 /\ bus.done.via # "thrown"
    /\ bus.done.grew /\ bus.done.cut /\ Len(bus.done.reg) >= 2
    /\ bus.done.called = bus.done.reg
    /\ bus.ev[bus.done.bus] # bus.done.reg

\* C14: no emit call ends by an exception, and every emit call that has ended
\* invoked all the listeners registered at its call and forwarded to all its
\* additional emitters, whatever its listeners threw.
C14_ThrowContained ==
    bus.done.bus # 0 =>
        /\ bus.done.via # "thrown"
        /\ bus.done.called = bus.done.reg
        /\ bus.done.j = Len(bus.done.fwd)

\* C15: when the callback awaited by undo(), redo() or addAndExecute() fails,
\* executing is decremented, and the promise of undo() or redo() does not
\* reject.
C15_GuaranteedRelease ==
    (hlast.op = "settle" /\ hlast.how # "resolved") =>
        /\ hist.executing = hlast.pre.executing - 1
        /\ hlast.by \in {"undo", "redo"} => ~hlast.rejected

(***************************************************************************)
(* Queries (SpecQuery): get and has on a Tree as constructed or after one  *)
(* call that changed it.                                                   *)
(***************************************************************************)
MaxQuerySteps == 2

\* tree.get(P)
TGet(P) ==
    /\ Ready
    /\ Called("get", tree, P, Undef, FALSE, <<>>, Return(Machine(store), Get(store, tree, P)))

\* tree.has(P)
THas(P) ==
    /\ Ready
    /\ Called("has", tree, P, Undef, FALSE, <<>>, Return(Machine(store), Has(store, tree, P)))

QNext ==
    \/ Within(MaxQuerySteps - 1) /\ TNext
    \/ \E P \in Paths : Within(MaxQuerySteps) /\ TGet(P)
    \/ \E P \in Paths : Within(MaxQuerySteps) /\ THas(P)

SpecQuery == TInit /\ [][QNext]_vars

\* What the walk along P ends on: undefined when a segment of P is absent.
Resolved == GetRaw(store, tlast.who, tlast.path)

\* C18: get(P) returns undefined when a segment of P is absent, the final
\* one included, null when P resolves to null, the JSON text of what P
\* resolves to otherwise, and leaves the Tree as it was.
C18_GetResult ==
    tlast.op = "get"
        => /\ ~tlast.thrown
           /\ tlast.ret = IF Resolved.t = "undef" THEN Undef ELSE Deep(store, Resolved)
           /\ Deep(store, Ref(tlast.who)) = tlast.was

\* C19: has(P) returns true when P resolves to a defined value, null
\* included, and false in every other case.
C19_HasResult ==
    tlast.op = "has"
        => /\ ~tlast.thrown
           /\ tlast.ret = Bool(Resolved.t # "undef")

(***************************************************************************)
(* Observers that were elements of `items` (SpecDetach): calls that take   *)
(* elements out of `items`, then set on an Observer the caller has kept.   *)
(***************************************************************************)
MaxDetachSteps == 3

\* The Observers constructed for elements of `items`, now or earlier.
Kept == {o \in 1..Len(store) : store[o].c = "obs" /\ o # tree}

\* o is not an element of `items` as it is now.
Detached(o) == \A i \in 0..3 : Child(i) # o

\* set(key, V) called on an Observer that the caller took from `items`
TKeptSet(o, key, V) ==
    /\ Ready
    /\ o \in Kept
    /\ Called("kept.set", o, <<key>>, V, FALSE, <<>>,
              Call(Machine(store), "set", <<o, <<key>>, V, FALSE, FALSE, FALSE>>))

DetachValues == { N1, X0, Arr(<<X0>>), Arr(<<X1, X0>>), Arr(<<>>) }

XNext ==
    \/ \E ind \in 0..2 : Within(MaxDetachSteps - 1) /\ TRemove(<<"items">>, ind)
    \/ \E P \in {<<"items">>, <<"items", "0">>}, V \in DetachValues :
           Within(MaxDetachSteps - 1) /\ TSet(P, V, FALSE)
    \/ \E P \in {<<"items">>} : Within(MaxDetachSteps - 1) /\ TUnset(P)
    \/ \E o \in 1..8, V \in {N0, N1} : Within(MaxDetachSteps) /\ TKeptSet(o, "x", V)

SpecDetach == LInit /\ [][XNext]_vars

\* C20: a call of set on an Observer that is no longer an element of `items`
\* fires no event on the Observer that holds `items`.
C20_DetachedSilent ==
    (tlast.op = "kept.set" /\ Detached(tlast.who))
        => \A n \in 1..Len(tlast.log) : tlast.log[n].o # tree

(***************************************************************************)
(* Further claims on the calls of SpecTree                                 *)
(***************************************************************************)

Count(s, v) == Cardinality({i \in 1..Len(s) : s[i] = v})

SameElements(s, t) == Len(s) = Len(t) /\ \A i \in 1..Len(s) : Count(s, s[i]) = Count(t, s[i])

\* C21: move(P, indOld, indNew) on a sequence with indOld equal to indNew,
\* indOld not an index of the sequence or indNew beyond its length changes
\* nothing and emits nothing, and every move leaves the sequence with the
\* same length and the same elements.
C21_MoveFrame ==
    (tlast.op = "move" /\ tlast.pre.t = "arr")
        => LET now == Deep(store, Get(store, tlast.who, tlast.path))
               n == Len(tlast.pre.e)
           IN  /\ ~tlast.thrown
               /\ (tlast.at[1] = tlast.at[2] \/ tlast.at[1] \notin 0..(n - 1) \/ tlast.at[2] > n)
                     => now = tlast.pre /\ tlast.log = <<>>
               /\ now.t = "arr" /\ SameElements(now.e, tlast.pre.e)

(***************************************************************************)
(* Handles (events.ts, event-handle.ts): on() with the handle kept,        *)
(* once(), handle.unbind(), unbind and emissions on one emitter.            *)
(***************************************************************************)
\* The functions registered with a handle kept, all on emitter 1
HandleFns == 1..2

GNext ==
    \/ \E f \in HandleFns : HandleOn(1, f)
    \/ \E f \in HandleFns : Once(1, f)
    \/ \E k \in 1..MaxBusOps : HandleUnbind(k)
    \/ \E f \in HandleFns : Unbind(1, f)
    \/ UnbindName(1)
    \/ EmitCall(1)
    \/ Invoke
    \/ ListenerReturn
    \/ \E v \in Thrown : ListenerThrow(v)
    \/ EmitReturn

SpecHandles == EInit /\ [][GNext]_vars

\* C22: the function given to once(name, fn) is called once at most, whatever
\* emissions follow, from inside fn or after fn threw.
C22_OnceOnly == \A f \in Fns : bus.ran[f] <= 1

\* C23: a handle.unbind() on a handle already unbound removes nothing, and a
\* handle.unbind() on a handle whose registration had been removed before
\* removes no registration made since.
C23_HandleUnbind ==
    bus.hu.k # 0 => /\ bus.hu.spent => ~bus.hu.removed
                    /\ bus.hu.stale => ~bus.hu.removed

(***************************************************************************)
(* An ObserverSync with an allow-list of paths (SpecAllow): one call on    *)
(* `tree`.                                                                 *)
(***************************************************************************)
MaxAllowSteps == 1

AllowLists == { {<<"a">>}, {<<"x">>}, {<<"items", "0">>} }

\* tree = new Observer(D); tree.sync = new ObserverSync({ item: tree, paths })
Listed(D, paths, a) ==
    /\ store = [a.heap EXCEPT ![a.ret.id].sync = "on",
                              ![a.ret.id].allow = [on |-> TRUE, paths |-> paths]]
    /\ tree = a.ret.id
    /\ tlast = Outcome("new", 0, <<>>, D, FALSE, <<>>, a)

AInit ==
    /\ HistoryIdle
    /\ \E D \in Docs, paths \in AllowLists : Listed(D, paths, Construct(<<>>, D))
    /\ twin = 0
    /\ queue = <<>>
    /\ steps = 0
    /\ faulted = FALSE
    /\ bus = NoBus

ANext ==
    \/ \E P \in Paths, V \in Values : Within(MaxAllowSteps) /\ TSet(P, V, FALSE)
    \/ \E P \in Paths : Within(MaxAllowSteps) /\ TUnset(P)
    \/ \E P \in ListPaths, V \in Values, ind \in Inds : Within(MaxAllowSteps) /\ TInsert(P, V, ind)
    \/ \E P \in ListPaths, ind \in 0..2 : Within(MaxAllowSteps) /\ TRemove(P, ind)
    \/ \E P \in ListPaths, indOld \in 0..2, indNew \in -1..2 : Within(MaxAllowSteps) /\ TMove(P, indOld, indNew)

SpecAllow == AInit /\ [][ANext]_vars

\* P is one of the listed paths or lies under one.
Inside(paths, P) == \E q \in paths : IsPrefix(q, P)

\* C24: with an allow-list configured, a call of set, unset, insert, remove
\* or move at a path outside the list emits no operation.
C24_AllowList ==
    (tlast.op \in {"set", "unset", "insert", "remove", "move"}
        /\ ~Inside(store[tree].allow.paths, tlast.path))
        => tlast.ops = <<>>

(***************************************************************************)
(* Further claims on write (SpecSync)                                      *)
(***************************************************************************)

\* The call that the fields of an operation stand for: oi first, then ld
\* with li, ld, li, lm, od.
Meant(has) ==
    IF "oi" \in has THEN "set"
    ELSE IF "ld" \in has /\ "li" \in has THEN "set"
    ELSE IF "ld" \in has THEN "remove"
    ELSE IF "li" \in has THEN "insert"
    ELSE IF "lm" \in has THEN "move"
    ELSE IF "od" \in has THEN "unset"
    ELSE "none"

\* The events a call of that kind can emit on the item.
KindsOf(call) == IF call = "set" THEN {"set", "unset"} ELSE {call}

\* The events of the last call on the item itself, but the `sync` event of
\* ObserverSync.
TreeEvents == SelectSeq(tlast.log, LAMBDA e : e.o = tlast.who /\ e.kind # "sync")

\* C25: write(op) with none of oi, od, li, ld, lm returns, leaves json() of
\* the item as it was and emits neither an event on the item nor an
\* operation; any write emits on the item only the events of the call that
\* the fields of op stand for, the event of that call among them.
C25_WriteDispatch ==
    tlast.op = "write"
        => /\ tlast.at[1].has = {}
                => /\ ~tlast.thrown
                   /\ Deep(store, Ref(twin)) = tlast.was
                   /\ TreeEvents = <<>>
                   /\ tlast.ops = <<>>
           /\ \A n \in 1..Len(TreeEvents) : TreeEvents[n].kind \in KindsOf(Meant(tlast.at[1].has))
           /\ TreeEvents # <<>>
                => \E n \in 1..Len(TreeEvents) : TreeEvents[n].kind = Meant(tlast.at[1].has)

\* An operation without any of the fields was written.
C25_Witness ==
    /\ tlast.op = "write" /\ tlast.at[1].has = {}
    /\ ~tlast.thrown
    /\ Len(tlast.log) = 1 /\ tlast.log[1].kind = "sync"
    /\ Deep(store, Ref(twin)) = tlast.was

(***************************************************************************)
(* Further claims on History (SpecHistory)                                 *)
(***************************************************************************)

\* The last call was undo() with canUndo reading false, or redo() with
\* canRedo reading false.
Refused ==
    \/ hlast.op = "undo" /\ ~canUndo(hlast.pre)
    \/ hlast.op = "redo" /\ ~canRedo(hlast.pre)

\* C26: undo() while canUndo reads false and redo() while canRedo reads false
\* leave the cursor and the entries as they were, emit no `undo` / `redo`
\* event and call no callback; an undo() or redo() that calls a callback was
\* made while no callback was being awaited.
C26_RefusedUndoRedo ==
    /\ Refused
         => /\ hist.index = hlast.pre.index
            /\ hist.actions = hlast.pre.actions
            /\ \A n \in 1..Len(hist.ev) : hist.ev[n][1] \notin {"undo", "redo"}
            /\ hlast.call = 0
    /\ (hlast.op \in {"undo", "redo"} /\ hlast.call # 0) => Len(pend) = 1

\* undo() was called with the flag set while a callback was being awaited.
C26_Witness ==
    /\ hlast.op = "undo"
    /\ hlast.pre.canUndo /\ hlast.pre.executing > 0
    /\ hlast.call = 0
    /\ pend # <<>>
    /\ hist.index = hlast.pre.index

(***************************************************************************)
(* destroy() (SpecDestroy): destroy() of the Observer that holds `items`   *)
(* or of an element of `items`, between calls that change them.            *)
(***************************************************************************)
MaxDestroySteps == 3

\* destroy() called on the Observer o; `at` keeps whether o was destroyed
\* before the call.
TDestroy(o) ==
    /\ Ready
    /\ o \in Kept \cup {tree}
    /\ Called("destroy", o, <<>>, Undef, FALSE, <<store[o].destroyed>>,
              Call(Machine(store), "destroy", <<o>>))

YNext ==
    \/ \E o \in 1..8 : Within(MaxDestroySteps) /\ TDestroy(o)
    \/ \E P \in {<<"a">>, <<"items", "0", "x">>, <<"items", "1">>}, V \in {N0, N1, X0} :
           Within(MaxDestroySteps) /\ TSet(P, V, FALSE)
    \/ \E ind \in {N0, N1} : Within(MaxDestroySteps) /\ TInsert(<<"items">>, X0, ind)
    \/ \E o \in 1..8, V \in {N0, N1} : Within(MaxDestroySteps) /\ TKeptSet(o, "x", V)

SpecDestroy == LInit /\ [][YNext]_vars

\* The `destroy` events of the last call.
DestroyEvents == SelectSeq(tlast.log, LAMBDA e : e.kind = "destroy")

\* C27: the first destroy() of an Observer emits `destroy` once and every
\* later one emits nothing; no call made after destroy() fires an event at
\* the destroyed Observer, and set on a destroyed element of `items` fires
\* no event at all.
C27_DestroyOnce ==
    /\ tlast.op = "destroy"
         => /\ ~tlast.thrown
            /\ Len(DestroyEvents) = (IF tlast.at[1] THEN 0 ELSE 1)
            /\ \A n \in 1..Len(DestroyEvents) : DestroyEvents[n].o = tlast.who
            /\ store[tlast.who].destroyed
    /\ \A n \in 1..Len(tlast.log) :
           store[tlast.log[n].o].destroyed
               => tlast.op = "destroy" /\ tlast.log[n].kind = "destroy"
    /\ (tlast.op = "kept.set" /\ store[tlast.who].destroyed) => tlast.log = <<>>

\* A value of an element of `items` was changed after destroy() of the
\* element, and no event was fired.
C27_Witness ==
    /\ tlast.op = "kept.set"
    /\ store[tlast.who].destroyed
    /\ ~Detached(tlast.who)
    /\ tlast.ret = Bool(TRUE)
    /\ tlast.log = <<>>

(***************************************************************************)
(* Listeners that read (SpecSeen): the calls of SpecTree on an Observer    *)
(* whose listeners call json() on it.                                      *)
(***************************************************************************)
MaxSeenSteps == 2

SeenDocs ==
    { Rec(<<Field("a", Rec(<<Field("x", N0), Field("y", N0)>>))>>),
      Rec(<<Field("a", XY1)>>),
      Rec(<<Field("items", Arr(<<N1, N0>>))>>),
      Rec(<<Field("a", N1), Field("items", Arr(<<X1, X0>>))>>) }

SeenValues ==
    { N1, X1, Rec(<<Field("x", N1), Field("y", N1)>>),
      Arr(<<N0, N1>>), Arr(<<N1>>), Arr(<<X0, X1>>) }

\* `tree` is new Observer(D), then listeners that read it are registered.
Read(D, a) ==
    /\ store = [a.heap EXCEPT ![a.ret.id].reads = TRUE]
    /\ tree = a.ret.id
    /\ tlast = Outcome("new", 0, <<>>, D, FALSE, <<>>, a)

ZInit ==
    /\ HistoryIdle
    /\ \E D \in SeenDocs : Read(D, Construct(<<>>, D))
    /\ twin = 0
    /\ queue = <<>>
    /\ steps = 0
    /\ faulted = FALSE
    /\ bus = NoBus

ZNext ==
    \/ \E P \in {<<"a">>, <<"items">>, <<"items", "0">>}, V \in SeenValues :
           Within(MaxSeenSteps) /\ TSet(P, V, FALSE)
    \/ \E P \in {<<"a">>, <<"a", "x">>, <<"items">>} : Within(MaxSeenSteps) /\ TUnset(P)
    \/ \E V \in {N0, X0}, ind \in Inds : Within(MaxSeenSteps) /\ TInsert(<<"items">>, V, ind)
    \/ \E ind \in 0..1 : Within(MaxSeenSteps) /\ TRemove(<<"items">>, ind)
    \/ \E indOld \in 0..1, indNew \in 0..1 : Within(MaxSeenSteps) /\ TMove(<<"items">>, indOld, indNew)

SpecSeen == ZInit /\ [][ZNext]_vars

\* C28: what json() gives to a listener of an event of a call is what it
\* gives once the call has returned.
C28_EmitAfterChange ==
    (tlast.op \in {"set", "unset", "insert", "remove", "move"} /\ ~tlast.thrown)
        => \A n \in 1..Len(tlast.log) :
               tlast.log[n].o = tree => tlast.log[n].saw = Deep(store, Ref(tree))

(***************************************************************************)
(* Arrays of the caller (SpecAlias): the caller writes into the arrays it  *)
(* gave to new Observer(D), then calls set.                                *)
(***************************************************************************)
\* Writes of the caller into its own arrays in one behaviour.
MaxOutside == 2

\* Documents whose `items` is [1, ...] or [[1, ...], ...] or [[[1]]].
AliasDocs ==
    { Rec(<<Field("items", Arr(<<N1, N1>>))>>),
      Rec(<<Field("items", Arr(<<Arr(<<N1>>)>>))>>),
      Rec(<<Field("items", Arr(<<Arr(<<N1, N1>>), Arr(<<N1>>)>>))>>),
      Rec(<<Field("items", Arr(<<Arr(<<Arr(<<N1>>)>>)>>))>>) }

\* The Arrays of the literal given to new Observer: they were made before
\* the Observer was.
Sources == {id \in 1..Len(store) : id < tree /\ store[id].c = "arr"}

AInitAlias ==
    /\ HistoryIdle
    /\ \E D \in AliasDocs : Booted(D, Construct(<<>>, D))
    /\ twin = 0
    /\ queue = <<>>
    /\ steps = 0
    /\ faulted = FALSE
    /\ bus = NoBus

\* source[i] = V, a statement of the caller on an Array of its literal.
Outside(id, i, V) ==
    /\ steps < MaxOutside
    /\ id \in Sources
    /\ i \in 0..(Len(store[id].el) - 1)
    /\ store' = [store EXCEPT ![id].el[i + 1] = V]
    /\ tlast' = Outcome("outside", tree, <<"items">>, V, FALSE, <<id, i>>,
                        Machine([store EXCEPT ![id].el[i + 1] = V]))
    /\ steps' = steps + 1
    /\ UNCHANGED <<tree, twin, queue, faulted, bus>>
    /\ UNCHANGED hvars

\* set is called once, after a write of the caller.
AliasNext ==
    \/ \E id \in 1..8, i \in 0..1 : Outside(id, i, N0)
    \/ \E P \in {<<"items", "0">>, <<"items", "0", "0">>, <<"items", "0", "0", "0">>}, V \in {N0, N1} :
           tlast.op = "outside" /\ TSet(P, V, FALSE)

SpecAlias == AInitAlias /\ [][AliasNext]_vars

\* C29: a write of the caller into an Array of the literal it gave to
\* new Observer leaves get('items') as it was, and a later set of an element
\* that the constructor made 1 to 0 returns true and emits `*:set` with the
\* path of the element and 0.
C29_IndependentCopies ==
    /\ tlast.op = "outside" => Deep(store, Get(store, tree, <<"items">>)) = tlast.pre
    /\ (tlast.op = "set" /\ tlast.value = N0 /\ tlast.had /\ ~tlast.thrown)
          => /\ tlast.ret = Bool(TRUE)
             /\ \E n \in 1..Len(tlast.log) :
                    /\ tlast.log[n].o = tree /\ tlast.log[n].wild
                    /\ tlast.log[n].kind = "set"
                    /\ tlast.log[n].path = tlast.path
                    /\ tlast.log[n].args[1] = N0

(***************************************************************************)
(* Further claims on unset (SpecSeen)                                      *)
(***************************************************************************)

\* The paths of the unset events that unset(P) owes for a record with the
\* _keys ks: those of the keys from the last to the first, each after
\* those of the keys under it, then P.
RECURSIVE Owed(_, _)
Owed(P, ks) ==
    LET RECURSIVE from(_)
        from(i) == IF i = 0 THEN <<>>
                   ELSE Owed(Append(P, ks[i].k), ks[i].under) \o from(i - 1)
    IN  from(Len(ks)) \o <<P>>

\* The last call named a keyed record {_path, _keys, _data}.
OnRecord == tlast.at[1] = "rec"

\* The events of the last call at `tree`, by pairs.
PairsAtTree == SelectSeq(tlast.log, LAMBDA e : e.o = tree)

\* C30: unset(P) of a keyed record emits, for every field under P and then
\* for P, `<path>:unset` then `*:unset`: the fields of a record from the last
\* of its _keys to the first, each after the fields under it, P last with
\* the value that json gave at P before the call.
C30_UnsetOrder ==
    (tlast.op = "unset" /\ OnRecord)
        => LET owed == Owed(tlast.path, tlast.at[2])
               log == PairsAtTree
           IN  /\ ~tlast.thrown
               /\ tlast.ret = Bool(TRUE)
               /\ Len(log) = 2 * Len(owed)
               /\ \A n \in 1..Len(owed) :
                      /\ log[2 * n - 1].kind = "unset" /\ ~log[2 * n - 1].wild
                      /\ log[2 * n].kind = "unset" /\ log[2 * n].wild
                      /\ log[2 * n - 1].path = owed[n]
                      /\ log[2 * n].path = owed[n]
               /\ log[Len(log)].args[1] = tlast.pre

\* unset of a record with two fields, or of a record in a record.
C30_Witness ==
    /\ tlast.op = "unset" /\ OnRecord
    /\ ~tlast.thrown
    /\ Len(PairsAtTree) = 6
    /\ PairsAtTree[6].args[1] = tlast.pre

(***************************************************************************)
(* Silent calls (SpecSilent): insert, remove and move on `items` with the  *)
(* argument silent = true.                                                 *)
(***************************************************************************)
MaxSilentSteps == 2

\* insert(P, V, ind, true)
TSilentInsert(P, V, ind) ==
    /\ Ready /\ Addressable(store, tree, P)
    /\ Called("silent.insert", tree, P, V, FALSE, <<ind>>,
              Call(Machine(Given(V).heap), "insert", <<tree, P, Given(V).v, ind, TRUE, FALSE>>))

\* remove(P, ind, true)
TSilentRemove(P, ind) ==
    /\ Ready /\ Addressable(store, tree, P)
    /\ Called("silent.remove", tree, P, Undef, FALSE, <<ind>>,
              Call(Machine(store), "remove", <<tree, P, ind, TRUE, FALSE>>))

\* move(P, indOld, indNew, true)
TSilentMove(P, indOld, indNew) ==
    /\ Ready /\ Addressable(store, tree, P)
    /\ Called("silent.move", tree, P, Undef, FALSE, <<indOld, indNew>>,
              Call(Machine(store), "move", <<tree, P, indOld, indNew, TRUE, FALSE>>))

QNextSilent ==
    \/ \E V \in ItemValues, ind \in Inds : Within(MaxSilentSteps) /\ TSilentInsert(<<"items">>, V, ind)
    \/ \E ind \in 0..2 : Within(MaxSilentSteps) /\ TSilentRemove(<<"items">>, ind)
    \/ \E indOld \in 0..2, indNew \in 0..2 :
           Within(MaxSilentSteps) /\ TSilentMove(<<"items">>, indOld, indNew)

SpecSilent == LInit /\ [][QNextSilent]_vars

\* C31: insert, remove and move called with silent = true call no listener
\* of `<path>:insert` / `*:insert` (remove, move) of the Observer.
C31_SilentNoEvent ==
    tlast.op \in {"silent.insert", "silent.remove", "silent.move"}
        => \A n \in 1..Len(tlast.log) :
               tlast.log[n].o = tree => tlast.log[n].kind \notin {"insert", "remove", "move"}

(***************************************************************************)
(* The switches of the bridges (SpecToggle): sync.enabled and              *)
(* history.enabled of `twin` are set by the caller between writes.         *)
(***************************************************************************)
MaxToggleSteps == 2

\* item.sync.enabled = value (which = "sync") or item.history.enabled =
\* value (which = "history"), by the caller.
Switch(which, value) ==
    /\ twin # 0 /\ queue = <<>>
    /\ store' = IF which = "sync" THEN [store EXCEPT ![twin].sync = value]
                ELSE [store EXCEPT ![twin].history = value]
    /\ tlast' = Outcome("switch", twin, <<>>, Undef, FALSE, <<which, value>>,
                        Machine(IF which = "sync" THEN [store EXCEPT ![twin].sync = value]
                                ELSE [store EXCEPT ![twin].history = value]))
    /\ steps' = steps + 1
    /\ UNCHANGED <<tree, twin, queue, faulted, bus>>
    /\ UNCHANGED hvars

ToggleNext ==
    \/ \E which \in {"sync", "history"}, value \in {"on", "off"} :
           Within(MaxToggleSteps) /\ Switch(which, value)
    \/ \E op \in Inbound : Within(MaxToggleSteps + 1) /\ Receive(op)

SpecToggle == SInit /\ [][ToggleNext]_vars

\* C32: when write(op) has returned, sync.enabled and history.enabled of the
\* item are what they were before the call.
C32_WriteRestores ==
    (tlast.op = "write" /\ ~tlast.thrown)
        => /\ store[twin].sync = tlast.at[2]
           /\ store[twin].history = tlast.at[3]

(***************************************************************************)
(* silence() / silenceRestore(state) called by the caller on `twin`, which *)
(* has both bridges (SpecSilence).  The states silence() returned and not  *)
(* yet handed back are kept, innermost last, with the switches as they     *)
(* were before that silence().                                             *)
(***************************************************************************)
MaxSilenceDepth == 2
MaxSilenceSteps == 4

Switches(heap, o) == <<heap[o].history, heap[o].sync>>

Held == IF tlast.op \in {"silence", "silenceRestore"} THEN tlast.at[1] ELSE <<>>

\* state = twin.silence()
TSilence ==
    /\ twin # 0 /\ queue = <<>>
    /\ Len(Held) < MaxSilenceDepth
    /\ LET st == Silence(Machine(store), twin)
           kept == Append(Held, [state |-> SilenceState(Machine(store), twin),
                                 before |-> Switches(store, twin)])
       IN  /\ store' = st.heap
           /\ tlast' = Outcome("silence", twin, <<>>, Undef, FALSE, <<kept, <<>>>>, st)
    /\ steps' = steps + 1
    /\ UNCHANGED <<tree, twin, queue, faulted, bus>>
    /\ UNCHANGED hvars

\* twin.silenceRestore(state), with the state of the innermost silence()
TSilenceRestore ==
    /\ twin # 0 /\ queue = <<>>
    /\ Held # <<>>
    /\ LET top == Held[Len(Held)]
           st == SilenceRestore(Machine(store), twin, top.state)
       IN  /\ store' = st.heap
           /\ tlast' = Outcome("silenceRestore", twin, <<>>, Undef, FALSE,
                               <<SubSeq(Held, 1, Len(Held) - 1), <<top>>>>, st)
    /\ steps' = steps + 1
    /\ UNCHANGED <<tree, twin, queue, faulted, bus>>
    /\ UNCHANGED hvars

SilenceNext ==
    \/ \E which \in {"sync", "history"}, value \in {"on", "off"} :
           Within(MaxSilenceSteps) /\ Held = <<>> /\ Switch(which, value)
    \/ Within(MaxSilenceSteps + MaxSilenceDepth) /\ TSilence
    \/ TSilenceRestore

SpecSilence == SInit /\ [][SilenceNext]_vars

\* C33: after silenceRestore(state) the switches history.enabled and
\* sync.enabled are what they were before the silence() that returned the
\* state, and between the outermost silence() and the outermost
\* silenceRestore neither bridge is enabled.
C33_SilenceBalanced ==
    /\ tlast.op = "silenceRestore" => Switches(store, twin) = tlast.at[2][1].before
    /\ Held # <<>> => /\ store[twin].history # "on"
                      /\ store[twin].sync # "on"

\* an inner silenceRestore has returned, between a silence() made with both
\* bridges enabled and its silenceRestore
C33_Witness ==
    /\ tlast.op = "silenceRestore"
    /\ Len(Held) = 1
    /\ Held[1].before = <<"on", "on">>

\* the outermost silenceRestore has switched both bridges on again
C33_WitnessOuter ==
    /\ tlast.op = "silenceRestore"
    /\ Held = <<>>
    /\ tlast.at[2][1].before = <<"on", "on">>
    /\ Switches(store, twin) = <<"on", "on">>

(***************************************************************************)
(* set(P, V) with a record or an Array for V, on `twin`, which has an      *)
(* ObserverHistory and an ObserverSync (SpecBridged).                      *)
(***************************************************************************)
MaxBridgedSteps == 1

Composites == { Rec(<<>>), X1, XY1, Arr(<<N1>>), Arr(<<N1, N0>>), Arr(<<X1>>) }

\* twin.set(P, V); at keeps the names of the actions the ObserverHistory
\* handed to History.add during the call, in order.
TBridgedSet(P, V) ==
    /\ Ready /\ Addressable(store, twin, P)
    /\ LET st == Call(Machine(Given(V).heap), "set", <<twin, P, Given(V).v, FALSE, FALSE, FALSE>>)
       IN  Called("bridged.set", twin, P, V, FALSE,
                  <<[i \in 1..Len(st.hrec) |-> st.hrec[i].name]>>, st)

BridgedNext ==
    \/ \E P \in Paths, V \in Composites : Within(MaxBridgedSteps) /\ TBridgedSet(P, V)

SpecBridged == SInit /\ [][BridgedNext]_vars

\* C34: a call set(P, V) with a record or an Array for V that changes the
\* Observer hands exactly one action to the History and emits exactly one
\* operation, both for path P, whatever was at P before.
C34_OneActionOneOp ==
    (tlast.op = "bridged.set" /\ ~tlast.thrown /\ tlast.ret = Bool(TRUE))
        => /\ tlast.at[1] = <<tlast.path>>
           /\ Len(tlast.ops) = 1
           /\ tlast.ops[1].p = tlast.path

(***************************************************************************)
(* The History whose awaited callbacks all settle (SpecHistoryLive): the   *)
(* calls of SpecHistory, and no callback awaited forever.                  *)
(***************************************************************************)
Settles == \E i \in 1..MaxPending, how \in Outcomes : Settle(i, how)

SpecHistoryLive == HInit /\ [][HNext]_vars /\ WF_vars(Settles)

\* undo() / redo() made while a callback was awaited did nothing
Idle ==
    (hlast.op \in {"undo", "redo"} /\ hlast.pre.executing > 0)
        => /\ hist = Fresh(hlast.pre)
           /\ hlast.call = 0

\* C35: when every awaited callback resolves or rejects, executing returns
\* to 0, and canUndo / canRedo are then the flags _canUndo / _canRedo; while
\* a callback is awaited executing is above 0 and undo() / redo() do nothing.
C35_ExecutingReturns ==
    /\ (hist.executing > 0) ~> (hist.executing = 0)
    /\ [](hist.executing = 0 => canUndo(hist) = hist.canUndo /\ canRedo(hist) = hist.canRedo)
    /\ [](pend # <<>> => hist.executing > 0)
    /\ []Idle

\* the last of two awaited callbacks has settled, and undo is offered again
C35_Witness ==
    /\ hlast.op = "settle"
    /\ hlast.pre.executing = 1
    /\ hist.executing = 0
    /\ pend = <<>>
    /\ canUndo(hist)
    /\ nextId > 2

\* undo() was called while a callback was awaited, with an entry to undo
C35_WitnessIdle ==
    /\ hlast.op = "undo"
    /\ hlast.pre.executing > 0
    /\ hlast.pre.canUndo

\* C36: the cursor of the History is between -1 and the index of the last
\* entry, _canUndo says that it is on an entry and _canRedo that an entry
\* follows it; undo() and redo() that go ahead find the entry they read.
C36_CursorInvariant ==
    /\ hist.index >= -1
    /\ hist.index <= Len(hist.actions) - 1
    /\ hist.canUndo <=> hist.index >= 0
    /\ hist.canRedo <=> hist.index < Len(hist.actions) - 1
    /\ (hlast.op = "undo" /\ canUndo(hlast.pre)) => currentAction(hlast.pre) # NoAction
    /\ (hlast.op = "redo" /\ canRedo(hlast.pre))
           => currentAction([hlast.pre EXCEPT !.index = @ + 1]) # NoAction

\* add was called while the callback of an undo was awaited, and dropped
\* the entry that had been undone
C36_Witness ==
    /\ hlast.op = "add"
    /\ hlast.ret
    /\ hlast.pre.executing > 0
    /\ hlast.pre.index < Len(hlast.pre.actions) - 1
    /\ hist.index = Len(hist.actions) - 1
    /\ pend # <<>>

\* C37: the value of the last `canUndo` event is the value of the getter
\* canUndo, and the value of the last `canRedo` event that of the getter
\* canRedo (false before the first event).
C37_ListenersInSync ==
    /\ hist.lastCanUndo = canUndo(hist)
    /\ hist.lastCanRedo = canRedo(hist)

\* the last awaited callback has settled and both events were emitted again
\* with true, after _canRedo was set with no event while it was awaited
C37_Witness ==
    /\ hlast.op = "settle"
    /\ hist.executing = 0
    /\ hist.ev = <<<<"canUndo", TRUE>>, <<"canRedo", TRUE>>>>
    /\ canUndo(hist) /\ canRedo(hist)

(***************************************************************************)
(* Emitters added to each other (SpecEmitters): addEmitter on either       *)
(* emitter with either emitter, and emit called by the client.  The call   *)
(* stack of the engine holds MaxCallStack frames of emit; the call that    *)
(* needs one more throws a RangeError.                                     *)
(***************************************************************************)
MaxCallStack == 4

\* a.addEmitter(b)
AddEmitterTo(a, b) ==
    /\ bus.stack = <<>>
    /\ \A k \in 1..Len(bus.em[a]) : bus.em[a][k] # b
    /\ bus' = [bus EXCEPT !.em[a] = Append(@, b)]
    /\ UNCHANGED Others

\* emitter.emit(...) of the forwarding loop, with the call stack full
Overflow ==
    /\ bus.stack # <<>> /\ Top.run = 0 /\ Top.i >= Len(Listeners(Top)) /\ Top.j < Len(Top.fwd)
    /\ Len(bus.stack) >= MaxCallStack
    /\ bus' = Unwind(bus)
    /\ UNCHANGED Others

EmittersNext ==
    \/ \E b \in Emitters : \E f \in FnsOf(b) : bus.stack = <<>> /\ On(b, f)
    \/ \E a \in Emitters, b \in Emitters : AddEmitterTo(a, b)
    \/ \E b \in Emitters : bus.stack = <<>> /\ ~bus.threw /\ EmitCall(b)
    \/ Invoke
    \/ ListenerReturn
    \/ Len(bus.stack) < MaxCallStack /\ Forward
    \/ Overflow
    \/ EmitReturn

SpecEmitters == EInit /\ [][EmittersNext]_vars

\* C38: emit returns, whatever emitters were added to which: no emitter is
\* entered again while its own emit is in progress, so that every listener
\* is called once at most for each emit of the client, and no emit ends by
\* the overflow of the call stack.
C38_EmitTerminates ==
    /\ ~bus.threw
    /\ \A m \in 1..Len(bus.stack), n \in 1..Len(bus.stack) :
           m < n => bus.stack[m].bus # bus.stack[n].bus

(***************************************************************************)
(* Undo and redo of a recorded change (SpecRoundTrip): one call on `twin`, *)
(* which has an ObserverHistory, then the undo callback of the action it   *)
(* recorded, then its redo callback, as History.undo() and History.redo()  *)
(* call them.                                                              *)
(***************************************************************************)

\* A call on `twin`; at keeps the actions the ObserverHistory handed to
\* History.add during the call and json() after it.
Recorded(op, P, V, st) ==
    /\ Ready /\ tlast.op = "new" /\ Addressable(store, twin, P)
    /\ Called(op, twin, P, V, FALSE, <<st.hrec, Deep(st.heap, Ref(twin))>>, st)

\* History.undo(), after a call that recorded one action, under the path
\* of the call: at keeps the action, json() before the call, json() after
\* it and the call.
TUndo ==
    /\ tlast.op \in {"do.set", "do.unset", "do.insert", "do.remove", "do.move"}
    /\ ~tlast.thrown /\ Len(tlast.at[1]) = 1
    /\ tlast.at[1][1].name = tlast.path
    /\ Called("history.undo", twin, tlast.path, Undef, FALSE,
              <<tlast.at[1][1], tlast.was, tlast.at[2], tlast.op>>,
              Call(Machine(store), "undo", <<tlast.at[1][1]>>))

\* History.redo(), after History.undo()
TRedo ==
    /\ tlast.op = "history.undo"
    /\ Called("history.redo", twin, tlast.path, Undef, FALSE, tlast.at,
              Call(Machine(store), "redo", <<tlast.at[1]>>))

RoundTripNext ==
    \/ \E P \in Paths, V \in Values :
           Recorded("do.set", P, V,
                    Call(Machine(Given(V).heap), "set", <<twin, P, Given(V).v, FALSE, FALSE, FALSE>>))
    \/ \E P \in Paths :
           Recorded("do.unset", P, Undef, Call(Machine(store), "unset", <<twin, P, FALSE, FALSE>>))
    \/ \E P \in ListPaths, V \in Values, ind \in Inds :
           Recorded("do.insert", P, V,
                    Call(Machine(Given(V).heap), "insert", <<twin, P, Given(V).v, ind, FALSE, FALSE>>))
    \/ \E P \in ListPaths, ind \in 0..2 :
           Recorded("do.remove", P, Undef, Call(Machine(store), "remove", <<twin, P, ind, FALSE, FALSE>>))
    \/ \E P \in ListPaths, indOld \in 0..2, indNew \in 0..2 :
           Recorded("do.move", P, Undef,
                    Call(Machine(store), "move", <<twin, P, indOld, indNew, FALSE, FALSE>>))
    \/ TUndo
    \/ TRedo

SpecRoundTrip == SInit /\ [][RoundTripNext]_vars

\* C39: after History.undo() json() of the Observer is what it was before
\* the recorded call, after the History.redo() that follows it is what it
\* was after the call, and neither hands an action to the History.
C39_RoundTrip ==
    /\ tlast.op = "history.undo"
           => /\ ~tlast.thrown
              /\ DeepEq(Deep(store, Ref(twin)), tlast.at[2])
              /\ tlast.hrec = 0
    /\ tlast.op = "history.redo"
           => /\ ~tlast.thrown
              /\ DeepEq(Deep(store, Ref(twin)), tlast.at[3])
              /\ tlast.hrec = 0

\* remove(path, ind) was called on an Array of `items`
Removing == tlast.op = "remove" /\ ~tlast.thrown /\ tlast.pre.t = "arr"

RemoveEvents == SelectSeq(tlast.log, LAMBDA e : e.o = tree /\ e.kind = "remove")

\* The Array `items` in the JSON of a tree
ItemsIn(json) == Lookup(json.f, "items").e

\* C40: remove(path, ind) returns true and emits `<path>:remove` and
\* `*:remove` only when the Array has an element at ind: the Array is then
\* shorter by that element and the events carry its JSON and ind; for any
\* other ind, the length of the Array included, it returns false, emits
\* nothing and leaves the Array as it was.
C40_RemoveExisting ==
    Removing =>
        IF tlast.at[1] < Len(tlast.pre.e)
        THEN /\ tlast.ret = Bool(TRUE)
             /\ ItemsIn(Deep(store, Ref(tree))) = SpliceOut(ItemsIn(tlast.was), tlast.at[1])
             /\ Len(RemoveEvents) = 2
             /\ \A n \in 1..2 : /\ RemoveEvents[n].args[1] = tlast.pre.e[tlast.at[1] + 1]
                                /\ RemoveEvents[n].args[2] = Num(ToStr(tlast.at[1]))
        ELSE /\ tlast.ret = Bool(FALSE)
             /\ RemoveEvents = <<>>
             /\ ItemsIn(Deep(store, Ref(tree))) = ItemsIn(tlast.was)
====
